---- MODULE Spec2Model ----
(***************************************************************************)
(* The 15-minute prediction-market engine of polymarket-bot/               *)
(* btc_15m_bot_v3.py as a state machine: the main loop (window resolution, *)
(* strike capture, the per-window decision loop, settlement), the feed     *)
(* listener, the config reload and the asynchronous trade logger.          *)
(*                                                                         *)
(* Units.  BTC prices are whole dollars.  Token prices (bids, asks, entry  *)
(* and exit prices) are whole cents, 100 = 1.00.  Probabilities and edges  *)
(* are permille, 1000 = 1.0.  stop_loss_pct is in percent, and             *)
(* safety_margin_pct in units of 1/10000.  Time is a window number (one    *)
(* window = 900 s) and a phase of the window: 0 = the first 15 s, 1 = from *)
(* 15 s until 30 s before the end, 2 = the last 30 s.                      *)
(*                                                                         *)
(* The tasks run on one cooperative scheduler: an action is the code a     *)
(* task runs between two suspension points.                                *)
(*                                                                         *)
(* Spec is the engine; its producers leave their events on the logger's    *)
(* queue.  LoggerSpec is the trade logger with abstract producers.         *)
(* ExitSpec is the engine on a run far from the strike, FaultSpec the      *)
(* engine with errors raised in the main loop body, ConfigSpec the config  *)
(* watcher polling its document, ProbSpec the probability model as a       *)
(* function of the current price.  RedeemSpec is the engine with the       *)
(* redemption of the settlement observed, EntrySpec the engine on books at *)
(* the edge of the price range, GateSpec the engine with the depth         *)
(* snapshots of the entry gate observed, FeedSpec the engine with the      *)
(* feed's price-change messages.  QuietSpec is the engine on books at      *)
(* their defaults, VolSpec the volatility refresh, NudgeSpec the hybrid    *)
(* prediction, StartupSpec the construction of the engine on the config    *)
(* document it meets, WatchSpec the config watcher on a document whose     *)
(* modification time can move backwards.  MonitorSpec and HistorySpec are  *)
(* the FundingMonitor of freqtrade_hl/funding_monitor.py: its monitor-loop *)
(* task under start and stop calls, and get_funding_history.               *)
(***************************************************************************)
EXTENDS Integers, Sequences, FiniteSets, TLC

\* ------------------------------------------------------------------ bounds

\* Wall-clock windows the model runs through.
MaxWindow == 5
\* The listing service returns a market for the windows up to this one.
LastListed == 2
\* Position objects created over a run.
MaxPositions == 2
\* The per-window call counters saturate here.
CallCap == 2
\* Records handed to the trade logger in LoggerSpec.
MaxRecords == 3
\* Modification times of the config document in ConfigSpec.
MaxMtime == 3
\* Errors raised in the body of the main loop in FaultSpec.
MaxErrors == 1

\* --------------------------------------------------------------- constants

\* None as returned by the price helpers.
NoPrice == 0
\* A position's age limit, 3600 s, in windows of 900 s.
MaxAgeWindows == 4
\* Market15m.dynamic_fee
DynamicFee == 0
\* Take-profit multiplier 1.15, in percent, and its cap 0.99 in cents.
TakeProfitPct == 115
TakeProfitCap == 99
\* The ask-depth floor of the liquidity gate.
MinAskDepth == 200
\* The absent probability nudge (no model, or the prediction raised).
NoNudge == -1

Dirs == {"UP", "DOWN"}

\* Binance 1m candle open at a window's start: the strike.
CandleOpen(w) == 50000

\* Reference prices the ticker returns during a window, and at settlement.
TickPrices == {49900, 49980, 50100}
FinalPrices == {49900, 50000}

\* Top of book <<best_bid, best_ask>> the feed delivers for an instrument.  An
\* UP entry at ask 41 has its stop at exactly bid 26; one at ask 81 at bid 52.
Quotes(token) ==
  IF token = "UP" THEN {<<26, 41>>, <<52, 81>>}
  ELSE {<<25, 41>>}

\* Depth snapshots of get_token_depth: the failure default, a liquid book,
\* a heavy sell wall (ratio < 0.2) and a heavy buy wall (ratio > 5).
DepthFail == [bid_depth |-> 0, ask_depth |-> 0]
Depths == {DepthFail,
           [bid_depth |-> 300, ask_depth |-> 300],
           [bid_depth |-> 50, ask_depth |-> 300],
           [bid_depth |-> 2000, ask_depth |-> 300]}

\* The tunables of two well-formed config documents: the defaults of
\* load_config, and a document that lowers fee_pct and turns execution on.
\* fee_pct is in percent, obi_threshold in tenths.
Configs ==
  {[stop_loss_pct |-> 35, safety_margin_pct |-> 6, min_edge |-> 80,
    fee_pct |-> 3, obi_threshold |-> 15, execution_enabled |-> FALSE],
   [stop_loss_pct |-> 35, safety_margin_pct |-> 6, min_edge |-> 80,
    fee_pct |-> 2, obi_threshold |-> 15, execution_enabled |-> TRUE]}

\* The text of the config document: a JSON object with the six keys, a text
\* json.load rejects, or JSON that is not an object (a list of the values).
\* body is what the text holds or was meant to hold.
Documents == [kind : {"object", "unparseable", "not_object"}, body : Configs]

VARIABLES
  now,               \* wall clock: [win, phase]
  pc,                \* main task: "resolve", "loop", "busy", "settle"
  market,            \* the Market15m of run(): [slug, strike]
  book_up, book_down,\* its OrderBooks: [best_bid, best_ask]
  positions,         \* self.positions: references into allPos
  allPos,            \* every position dict created, by identity
  notified_signals,  \* self.notified_signals
  cfg,               \* the tunables set by load_config
  paper_trade,       \* self.paper_trade
  current_btc,       \* trade_loop's current_btc of the last iteration
  final_price,       \* trade_loop's final_price
  queue,             \* trade_logger.queue
  seen,              \* history: execute_trade calls of the current slug
  strikeSet,         \* history: the slug whose strike was assigned, and how often
  logRunning,        \* trade_logger.running
  file,              \* the lines of the log file
  drain,             \* AsyncTradeLogger.run: "start", "head", "get", "sleep", "done"
  dropped,           \* history: records whose write raised
  probe,             \* calls of calculate_prob_up: the arguments and the results
  conf_file,         \* the config document: [exists, mtime, doc]
  last_mtime,        \* config_watcher's last_mtime
  loads,             \* history: the kinds of document the watcher called load_config on
  raised,            \* history: errors raised in the body of the main loop
  redeem,            \* history: how the redemption of the last settlement went
  funding,           \* FundingMonitor._history, the clock, the answers of get_funding_history
  monitor,           \* FundingMonitor._running and _task, its tasks, its caller
  depth,             \* history: the depth snapshot the last entry gate examined
  feed,              \* history: the last message the feed listener processed
  vol,               \* strategy.volatility_per_min, and what its last refresh met
  probs,             \* history: the probabilities the last edge comparison used
  settled,           \* history: the slug last settled, its settlements and redemptions
  startup            \* the construction of the engine: the document met, the tunables set

engineVars == <<now, pc, market, book_up, book_down, positions, allPos,
                notified_signals, cfg, paper_trade, current_btc,
                final_price, seen, strikeSet>>
loggerVars == <<logRunning, file, drain, dropped>>
\* The state of the components that have a specification of their own.
lateVars == <<vol, probs, settled, startup>>
sideVars == <<redeem, funding, monitor, depth, feed, lateVars>>
partVars == <<probe, conf_file, last_mtime, loads, raised, sideVars>>
vars == <<engineVars, queue, loggerVars, partVars>>

\* ----------------------------------------------------------------- helpers

NoMarket == [slug |-> 0, strike |-> 0]
DefaultBook == [best_bid |-> 0, best_ask |-> 100]

Abs(x) == IF x < 0 THEN -x ELSE x
Min(a, b) == IF a < b THEN a ELSE b
Max(a, b) == IF a > b THEN a ELSE b
Bump(n) == Min(n + 1, CallCap)

\* Market15m.is_active: more than 30 s remain of the market's own window.
IsActive == market.slug = now.win /\ now.phase < 2

\* time_since_start < 15
InCooldown == market.slug = now.win /\ now.phase = 0

\* market.time_remaining in minutes, one value per phase.
MinutesLeft == IF now.phase = 0 THEN 15 ELSE 10

\* 0.5 * (1 + erf(z / sqrt 2)) with z = diff / (v * sqrt t), in permille, for
\* the volatilities, minutes and differences of the model.
NormalCdf(diff, t, v) ==
  CASE v = 25 /\ t = 15 /\ diff = -1000 -> 0
    [] v = 25 /\ t = 15 /\ diff = -100 -> 151
    [] v = 25 /\ t = 15 /\ diff = -20 -> 418
    [] v = 25 /\ t = 15 /\ diff = 20 -> 582
    [] v = 25 /\ t = 15 /\ diff = 100 -> 849
    [] v = 25 /\ t = 15 /\ diff = 1000 -> 1000
    [] v = 25 /\ t = 10 /\ diff = -1000 -> 0
    [] v = 25 /\ t = 10 /\ diff = -100 -> 103
    [] v = 25 /\ t = 10 /\ diff = -20 -> 400
    [] v = 25 /\ t = 10 /\ diff = 20 -> 600
    [] v = 25 /\ t = 10 /\ diff = 100 -> 897
    [] v = 25 /\ t = 10 /\ diff = 1000 -> 1000
    [] v = 5 /\ t = 15 /\ diff = -1000 -> 0
    [] v = 5 /\ t = 15 /\ diff = -100 -> 0
    [] v = 5 /\ t = 15 /\ diff = -20 -> 151
    [] v = 5 /\ t = 15 /\ diff = 20 -> 849
    [] v = 5 /\ t = 15 /\ diff = 100 -> 1000
    [] v = 5 /\ t = 15 /\ diff = 1000 -> 1000
    [] v = 5 /\ t = 10 /\ diff = -1000 -> 0
    [] v = 5 /\ t = 10 /\ diff = -100 -> 0
    [] v = 5 /\ t = 10 /\ diff = -20 -> 103
    [] v = 5 /\ t = 10 /\ diff = 20 -> 897
    [] v = 5 /\ t = 10 /\ diff = 100 -> 1000
    [] v = 5 /\ t = 10 /\ diff = 1000 -> 1000
    [] diff = 0 -> 500

\* The model without the test of the time left: an expired window is priced
\* like one with ten minutes to go.
ProbTimeUntested(current_price, strike_price, minutes_left, v) ==
  IF v = 0
  THEN (IF current_price >= strike_price THEN 1000 ELSE 0)
  ELSE NormalCdf(current_price - strike_price,
                 IF minutes_left <= 0 THEN 10 ELSE minutes_left, v)

\* The probability of a fall in the place of the probability of a rise.
ProbOfFall(current_price, strike_price, minutes_left, v) ==
  IF minutes_left <= 0 \/ v = 0
  THEN (IF current_price >= strike_price THEN 0 ELSE 1000)
  ELSE NormalCdf(strike_price - current_price, minutes_left, v)

\* ProbabilityStrategy.calculate_prob_up
calculate_prob_up(current_price, strike_price, minutes_left, v) ==
  IF minutes_left <= 0 \/ v = 0
  THEN (IF current_price >= strike_price THEN 1000 ELSE 0)
  ELSE NormalCdf(current_price - strike_price, minutes_left, v)

\* A blend that counts a nudge that did not predict as probability 0.
BlendUnguarded(ai, math_prob) ==
  (3 * (IF ai = NoNudge THEN 0 ELSE ai) + 7 * math_prob) \div 10

\* The hybrid prediction: 30% nudge + 70% model.
Blend(ai, math_prob) ==
  IF ai = NoNudge THEN math_prob ELSE (3 * ai + 7 * math_prob) \div 10

\* ProbabilityStrategy.volatility_per_min, at its default.
volatility_per_min == 25

\* Outputs of the probability-nudge model.
Nudges == {NoNudge, 0}

\* A safety margin of width zero.
NoSafetyMargin(cur, strike, pct) == FALSE

\* abs(diff) < strike * safety_margin_pct
InSafetyMargin(cur, strike, pct) == Abs(cur - strike) * 10000 < strike * pct

\* Market15m.up_price / down_price
MarketPrice(book) == IF book.best_ask > 0 THEN book.best_ask ELSE 50

\* ------------------------------------------------------------ the ledger
\* The ledger operations work on L = [pos, led, q, ns, seen]: the position
\* objects, self.positions, the logger's queue, notified_signals and the
\* call history.

Ledger == [pos |-> allPos, led |-> positions, q |-> queue,
           ns |-> notified_signals, seen |-> seen]

\* A queue that hands out the newest record first.
logFront(q, record) == <<record>> \o q

\* AsyncTradeLogger.log: queue.put_nowait(record)
log(q, record) == Append(q, record)

\* list.remove(p)
Remove(led, i) == SelectSeq(led, LAMBDA j : j # i)

\* The held side's best bid.
BestBid(direction) ==
  IF direction = "UP" THEN book_up.best_bid ELSE book_down.best_bid

\* Entries and bids in cents for which the double-precision value of
\* (bid - entry) / entry, with entry = (entry + 1)/100 - 0.01 as execute_trade
\* computes it, lies below -stop_loss_pct although the exact quotient equals
\* it: <<entry, bid, stop_loss_pct>>.
RoundsBelow == {<<80, 52, 35>>}

\* The stop with the boundary included.
StopLossInclusive(entry, bid, sl) == (bid - entry) * 100 <= -(sl * entry)

\* pnl_pct < -self.stop_loss_pct, with pnl_pct = (current_bid - entry) / entry
StopLossFires(entry, bid, sl) ==
  \/ (bid - entry) * 100 < -(sl * entry)
  \/ (bid - entry) * 100 = -(sl * entry) /\ <<entry, bid, sl>> \in RoundsBelow

\* The take-profit level without its cap.
TakeProfitUncapped(entry, bid) == bid * 100 >= entry * TakeProfitPct

\* current_bid >= tp_price, with tp_price = entry * 1.15 capped at 0.99
TakeProfitFires(entry, bid) ==
  bid * 100 >= Min(entry * TakeProfitPct, TakeProfitCap * 100)

\* The event an exit puts on the queue.
ExitEvent(kind, p, exit, pnl) ==
  [type |-> IF paper_trade THEN kind \o "_PAPER" ELSE kind,
   market |-> p.market_slug, direction |-> p.direction,
   entry_price |-> p.entry_price, exit_price |-> exit, pnl |-> pnl,
   mode |-> IF paper_trade THEN "PAPER" ELSE "LIVE"]

RECURSIVE StopLossWalk(_, _, _)
StopLossWalk(ids, k, L) ==
  IF k > Len(ids) THEN L
  ELSE LET i == ids[k]
           p == L.pos[i]
           bid == BestBid(p.direction)
           pnl == <<bid - p.entry_price, p.entry_price>>
       IN IF \/ p.market_slug # market.slug
             \/ p.status # "OPEN"
             \/ bid <= 0
             \/ ~StopLossFires(p.entry_price, bid, cfg.stop_loss_pct)
          THEN StopLossWalk(ids, k + 1, L)
          ELSE StopLossWalk(ids, k + 1,
                 [L EXCEPT !.pos[i] = [p EXCEPT !.status = "SL_HIT",
                                                !.exit_price = bid,
                                                !.pnl = pnl,
                                                !.sl_placed = TRUE],
                           !.led = Remove(@, i),
                           !.q = log(@, ExitEvent("STOP_LOSS", p, bid, pnl))])

\* A stop-loss pass that evaluates a position whatever its bid.
RECURSIVE StopLossWalkUngapped(_, _, _)
StopLossWalkUngapped(ids, k, L) ==
  IF k > Len(ids) THEN L
  ELSE LET i == ids[k]
           p == L.pos[i]
           bid == BestBid(p.direction)
           pnl == <<bid - p.entry_price, p.entry_price>>
       IN IF \/ p.market_slug # market.slug
             \/ p.status # "OPEN"
             \/ ~StopLossFires(p.entry_price, bid, cfg.stop_loss_pct)
          THEN StopLossWalkUngapped(ids, k + 1, L)
          ELSE StopLossWalkUngapped(ids, k + 1,
                 [L EXCEPT !.pos[i] = [p EXCEPT !.status = "SL_HIT",
                                                !.exit_price = bid,
                                                !.pnl = pnl,
                                                !.sl_placed = TRUE],
                           !.led = Remove(@, i),
                           !.q = log(@, ExitEvent("STOP_LOSS", p, bid, pnl))])

check_stop_loss_ungapped(L) == StopLossWalkUngapped(L.led, 1, L)

\* PolymarketBotV3.check_stop_loss
check_stop_loss(L) == StopLossWalk(L.led, 1, L)

RECURSIVE TakeProfitWalk(_, _, _)
TakeProfitWalk(ids, k, L) ==
  IF k > Len(ids) THEN L
  ELSE LET i == ids[k]
           p == L.pos[i]
           bid == BestBid(p.direction)
           pnl == <<bid - p.entry_price, p.entry_price>>
       IN IF \/ p.market_slug # market.slug
             \/ p.tp_placed
             \/ p.status # "OPEN"
             \/ ~TakeProfitFires(p.entry_price, bid)
          THEN TakeProfitWalk(ids, k + 1, L)
          ELSE TakeProfitWalk(ids, k + 1,
                 [L EXCEPT !.pos[i] = [p EXCEPT !.status = "TP_HIT",
                                                !.exit_price = bid,
                                                !.pnl = pnl,
                                                !.tp_placed = TRUE],
                           !.led = Remove(@, i),
                           !.q = log(@, ExitEvent("TAKE_PROFIT", p, bid, pnl))])

\* PolymarketBotV3.check_take_profit
check_take_profit(L) == TakeProfitWalk(L.led, 1, L)

\* A tie settling DOWN.
WinnerStrict(final, strike) == IF final > strike THEN "UP" ELSE "DOWN"

\* "UP" if final_price >= strike else "DOWN"
Winner(final, strike) == IF final >= strike THEN "UP" ELSE "DOWN"

RECURSIVE SettleWalk(_, _, _, _)
SettleWalk(ids, k, L, winner) ==
  IF k > Len(ids) THEN L
  ELSE LET i == ids[k]
           p == L.pos[i]
           payout == IF p.direction = winner THEN 100 ELSE 0
           pnl == <<payout - p.entry_price, p.entry_price>>
       IN IF p.market_slug # market.slug \/ p.status # "OPEN"
          THEN SettleWalk(ids, k + 1, L, winner)
          ELSE SettleWalk(ids, k + 1,
                 [L EXCEPT !.pos[i] = [p EXCEPT !.status = "SETTLED",
                                                !.exit_price = payout,
                                                !.pnl = pnl],
                           !.led = Remove(@, i),
                           !.q = log(@, ExitEvent("SETTLED", p, payout, pnl))],
                 winner)

\* PolymarketBotV3.settle_positions
settle_positions(L, final) ==
  IF market.strike = NoPrice THEN L
  ELSE SettleWalk(L.led, 1, L, Winner(final, market.strike))

\* A position object created in the place of the first one.
ReuseSlot(pos) == 1

\* Where execute_trade stores the position object it creates: a new one.
NewSlot(pos) == Len(pos) + 1

Put(pos, slot, p) ==
  IF slot > Len(pos) THEN Append(pos, p) ELSE [pos EXCEPT ![slot] = p]

\* An entry priced from a book the iteration did not use for the edge: the
\* book before its first message.
EntryPriceOffBook(direction) == Min(99, Max(1, DefaultBook.best_ask - 1))

\* An execute_trade without the safety clamps.
EntryPriceUnclamped(direction) ==
  MarketPrice(IF direction = "UP" THEN book_up ELSE book_down) - 1

\* price = best_ask - 0.01, clamped to [0.01, 0.99]
EntryPrice(direction) ==
  LET book == IF direction = "UP" THEN book_up ELSE book_down
      best_ask == IF book.best_ask > 0 THEN book.best_ask ELSE MarketPrice(book)
  IN Min(99, Max(1, best_ask - 1))

\* The position dict of the paper path, and of the live path (no status key).
NewPosition(direction, price) ==
  [market_slug |-> market.slug, direction |-> direction, entry_price |-> price,
   timestamp |-> now.win, tp_placed |-> FALSE, sl_placed |-> FALSE,
   status |-> IF paper_trade THEN "OPEN" ELSE "NONE",
   exit_price |-> -1, pnl |-> <<>>]

EntryEvent(direction, price) ==
  IF paper_trade
  THEN [type |-> "V3_SMART_PAPER", market |-> market.slug, direction |-> direction,
        entry_price |-> price, exit_price |-> -1, pnl |-> <<>>, mode |-> "PAPER"]
  ELSE [type |-> "V3_SMART", market |-> 0, direction |-> direction,
        entry_price |-> price, exit_price |-> -1, pnl |-> <<>>, mode |-> "LIVE"]

\* A de-duplication set that remembers nothing.
NeverNotified(ns, signal_id) == FALSE

\* signal_id in self.notified_signals
Notified(ns, signal_id) == signal_id \in ns

\* An execute_trade without the execution switch.
execute_trade_unswitched(L, direction) ==
  LET signal_id == <<market.slug, direction>>
      called == [L EXCEPT !.seen.calls[direction] = Bump(@)]
  IN IF Notified(L.ns, signal_id) THEN called
     ELSE LET past == [called EXCEPT !.ns = @ \cup {signal_id},
                                     !.seen.passed[direction] = Bump(@)]
              price == EntryPrice(direction)
              slot == NewSlot(past.pos)
          IN [past EXCEPT !.pos = Put(@, slot, NewPosition(direction, price)),
                          !.led = Append(@, slot),
                          !.q = log(@, EntryEvent(direction, price))]

\* An execute_trade that examines the switch before the de-duplication.
execute_trade_switch_first(L, direction) ==
  LET signal_id == <<market.slug, direction>>
      called == [L EXCEPT !.seen.calls[direction] = Bump(@)]
  IN IF ~cfg.execution_enabled \/ Notified(L.ns, signal_id) THEN called
     ELSE LET past == [called EXCEPT !.ns = @ \cup {signal_id},
                                     !.seen.passed[direction] = Bump(@)]
              price == EntryPrice(direction)
              slot == NewSlot(past.pos)
          IN [past EXCEPT !.pos = Put(@, slot, NewPosition(direction, price)),
                          !.led = Append(@, slot),
                          !.q = log(@, EntryEvent(direction, price))]

\* PolymarketBotV3.execute_trade
execute_trade(L, direction) ==
  LET signal_id == <<market.slug, direction>>
      called == [L EXCEPT !.seen.calls[direction] = Bump(@)]
  IN IF Notified(L.ns, signal_id) THEN called
     ELSE LET past == [called EXCEPT !.ns = @ \cup {signal_id},
                                     !.seen.passed[direction] = Bump(@)]
              price == EntryPrice(direction)
              slot == NewSlot(past.pos)
          IN IF ~cfg.execution_enabled THEN past
             ELSE [past EXCEPT !.pos = Put(@, slot, NewPosition(direction, price)),
                               !.led = Append(@, slot),
                               !.q = log(@, EntryEvent(direction, price))]

\* ------------------------------------------------------------ the tunables

\* The order in which load_config assigns the tunables.
TunableKeys == <<"stop_loss_pct", "safety_margin_pct", "min_edge", "fee_pct",
                 "obi_threshold", "execution_enabled">>

\* The tunables after the first n assignments self.<key> = conf.get(<key>, ...).
AssignFrom(old, conf, n) ==
  [key \in DOMAIN old |->
     IF \E m \in 1..n : TunableKeys[m] = key THEN conf[key] ELSE old[key]]

\* A load that stops after the fourth assignment.
load_config_torn(old, doc) ==
  IF doc.kind = "object" THEN AssignFrom(old, doc.body, 4) ELSE old

\* A load that takes the values out of a text it cannot read.
load_config_unguarded(old, doc) == AssignFrom(old, doc.body, Len(TunableKeys))

\* PolymarketBotV3.load_config on a document that exists: json.load raises on
\* an unparseable text and conf.get on JSON that is not an object, both before
\* the first assignment, and the handler of load_config swallows the error.
load_config(old, doc) ==
  IF doc.kind = "object" THEN AssignFrom(old, doc.body, Len(TunableKeys)) ELSE old

\* ------------------------------------------------------------ the engine

NoCalls == [d \in Dirs |-> 0]

EngineInit ==
  /\ now = [win |-> 1, phase |-> 0]
  /\ pc = "resolve"
  /\ market = NoMarket
  /\ book_up = DefaultBook
  /\ book_down = DefaultBook
  /\ positions = <<>>
  /\ allPos = <<>>
  /\ notified_signals = {}
  /\ cfg \in Configs
  \* The mode attribute of __init__: the live path and the paper path.
  /\ paper_trade \in BOOLEAN
  /\ current_btc = NoPrice
  /\ final_price = NoPrice
  /\ seen = [slug |-> 0, calls |-> NoCalls, passed |-> NoCalls]
  /\ strikeSet = [slug |-> 0, times |-> 0]

LoggerIdle ==
  /\ logRunning = TRUE
  /\ file = <<>>
  /\ drain = "start"
  /\ dropped = {}

\* No call of the probability model is under observation.
NoProbe == [strike |-> 0, minutes_left |-> 0, volatility |-> 0, out |-> {}]

\* No config document.
NoFile == [exists |-> FALSE, mtime |-> 0, doc |-> [kind |-> "object",
           body |-> CHOOSE c \in Configs : ~c.execution_enabled]]

\* A FundingMonitor without history.
NoFunding == [history |-> <<>>, now |-> 0, out |-> {}]

\* FundingMonitor.__init__: not running, no task.  tasks are the monitor-loop
\* tasks ever created, cancel those with a cancellation requested, caller the
\* position of the coroutine that calls the monitor, calls and checks the
\* history of its calls and of the funding checks begun, stopped whether its
\* last call was a stop_monitoring that returned.
NoMonitor == [running |-> FALSE, task |-> 0, tasks |-> <<>>, cancel |-> {},
              caller |-> "idle", calls |-> <<>>, checks |-> 0,
              stopped |-> FALSE]

\* No entry gate has examined a depth snapshot.
NoDepth == [token |-> "NONE", liq |-> DepthFail]

\* ProbabilityStrategy.__init__: volatility_per_min = 25.0, in hundredths of a
\* dollar; no refresh has run.
DefaultVolatility == 2500
NoRefresh == [volatility_per_min |-> DefaultVolatility, refreshed |-> FALSE,
              price |-> NoPrice,
              dvol |-> [kind |-> "none", close |-> 0],
              klines |-> [kind |-> "none", closes |-> <<>>]]

\* No edge comparison has been observed.
NoProbs == [evaluated |-> FALSE, nudge |-> "none", ai |-> 0, math_prob |-> 0,
            prob_up |-> 0, prob_down |-> 0]

\* No settlement has been counted.
NoSettled == [slug |-> 0, times |-> 0, redeems |-> 0]

\* The construction of the engine is not under observation.
NoStartup == [doc |-> "none", defined |-> {}, ticked |-> "no"]

LateIdle ==
  /\ vol = NoRefresh
  /\ probs = NoProbs
  /\ settled = NoSettled
  /\ startup = NoStartup

\* No settlement has run; the funding monitor is not under observation.
SidesIdle ==
  /\ redeem = "none"
  /\ funding = NoFunding
  /\ monitor = NoMonitor
  /\ depth = NoDepth
  /\ feed = <<>>
  /\ LateIdle

PartsIdle ==
  /\ probe = NoProbe
  /\ conf_file = NoFile
  /\ last_mtime = 0
  /\ loads = <<>>
  /\ raised = 0
  /\ SidesIdle

Init == EngineInit /\ queue = <<>> /\ LoggerIdle /\ PartsIdle

\* Time passes: the next phase of the window, or the next window.  A window
\* past the last listed one has no market whose clock is read: it passes whole.
\* An iteration of the decision loop, and the settlement after it, take less
\* than the 30 s that are left when the market stops being active: the window
\* does not end under them.  Once the market is inactive the decision loop
\* reads neither the books nor its locals again: they take their defaults.
Advance ==
  /\ now.win < MaxWindow \/ (now.win <= LastListed /\ now.phase < 2)
  /\ pc \in {"loop", "busy", "settle"} => IsActive
  /\ now' = IF now.win <= LastListed /\ now.phase < 2
            THEN [now EXCEPT !.phase = @ + 1]
            ELSE [win |-> now.win + 1, phase |-> 0]
  /\ IF pc \in {"loop", "busy"} /\ now.phase = 1
     THEN book_up' = DefaultBook /\ book_down' = DefaultBook /\ current_btc' = NoPrice
     ELSE UNCHANGED <<book_up, book_down, current_btc>>
  /\ UNCHANGED <<pc, market, positions, allPos, notified_signals, cfg,
                 paper_trade, final_price, seen, strikeSet, queue, loggerVars, partVars>>

\* The cleanup of run(): positions younger than 3600 s stay.
Cleanup(led, pos) ==
  SelectSeq(led, LAMBDA i : now.win - pos[i].timestamp < MaxAgeWindows)

\* The strike assignment market.strike_price = strike_price, in the history.
CountStrike(slug) ==
  IF strikeSet.slug = slug THEN [strikeSet EXCEPT !.times = Bump(@)]
  ELSE [slug |-> slug, times |-> 1]

\* One iteration of run() up to the decision loop: cleanup, fetch_market,
\* the strike (None after 5 attempts: NoPrice), the feed connection.  The
\* Market15m object is a local of the iteration: one that does not reach the
\* decision loop is dropped.
Resolve(listed, candle, connected) ==
  /\ pc = "resolve"
  /\ positions' = Cleanup(positions, allPos)
  /\ book_up' = DefaultBook
  /\ book_down' = DefaultBook
  /\ final_price' = NoPrice
  /\ IF ~listed
     THEN /\ market' = NoMarket
          /\ pc' = "resolve"
          /\ UNCHANGED <<strikeSet, seen>>
     ELSE /\ now.win <= LastListed
          /\ seen' = IF seen.slug = now.win THEN seen
                     ELSE [slug |-> now.win, calls |-> NoCalls, passed |-> NoCalls]
          /\ IF candle = NoPrice
             THEN /\ market' = NoMarket
                  /\ pc' = "resolve"
                  /\ UNCHANGED strikeSet
             ELSE /\ strikeSet' = CountStrike(now.win)
                  /\ market' = IF connected THEN [slug |-> now.win, strike |-> candle]
                               ELSE NoMarket
                  /\ pc' = IF connected THEN "loop" ELSE "resolve"
  /\ UNCHANGED <<now, allPos, notified_signals, cfg, paper_trade, current_btc,
                 queue, loggerVars, partVars>>

\* A gate without the position lock.
NeverLocked(led) == FALSE

\* len(self.positions) > 0: one trade at a time.
PositionLocked(led) == Len(led) > 0

\* The liquidity ratio blocks the candidate.
RatioBlocks(direction, liq) ==
  IF direction = "UP" THEN liq.bid_depth * 10 < 2 * liq.ask_depth
  ELSE liq.bid_depth > 5 * liq.ask_depth

\* An edge comparison that examines DOWN first.
CandidateDownFirst(cur, ai) ==
  LET math_prob == calculate_prob_up(cur, market.strike, MinutesLeft,
                                     volatility_per_min)
      prob_up == Blend(ai, math_prob)
      prob_down == 1000 - prob_up
      edge_up == prob_up - MarketPrice(book_up) * 10 - DynamicFee
      edge_down == prob_down - MarketPrice(book_down) * 10 - DynamicFee
  IN IF edge_down > cfg.min_edge THEN "DOWN"
     ELSE IF edge_up > cfg.min_edge THEN "UP" ELSE "NONE"

\* The candidate of the edge comparison: UP is examined first.
Candidate(cur, ai) ==
  LET math_prob == calculate_prob_up(cur, market.strike, MinutesLeft,
                                     volatility_per_min)
      prob_up == Blend(ai, math_prob)
      prob_down == 1000 - prob_up
      edge_up == prob_up - MarketPrice(book_up) * 10 - DynamicFee
      edge_down == prob_down - MarketPrice(book_down) * 10 - DynamicFee
  IN IF edge_up > cfg.min_edge THEN "UP"
     ELSE IF edge_down > cfg.min_edge THEN "DOWN" ELSE "NONE"

\* The entry gate of an iteration that passed the cooldown, the safety margin
\* and the position lock: the depth floor, the candidate, its ratio check,
\* execute_trade.  liq is the depth of the examined side: the UP token's
\* unless the UP edge fails.  Result: the ledger, and whether the depth floor
\* rejected the iteration.
Gate(L, candidate, liq) ==
  IF liq.ask_depth < MinAskDepth THEN [L |-> L, illiquid |-> TRUE]
  ELSE IF candidate = "NONE" \/ RatioBlocks(candidate, liq)
       THEN [L |-> L, illiquid |-> FALSE]
       ELSE [L |-> execute_trade(L, candidate), illiquid |-> FALSE]

\* One iteration of the decision loop of trade_loop with the reference price
\* cur.  ai is the nudge, liq the depth snapshot of the examined side.  An input
\* the iteration does not read is not varied.
Iteration(cur) ==
  /\ pc \in {"loop", "busy"}
  /\ IsActive
  /\ IF cur = NoPrice
     THEN /\ current_btc' = NoPrice
          /\ pc' = "loop"
          /\ UNCHANGED <<positions, allPos, notified_signals, queue, seen>>
     ELSE \E L1 \in {check_take_profit(check_stop_loss(Ledger))} :
          \E margin \in {InSafetyMargin(cur, market.strike, cfg.safety_margin_pct)} :
          \E atGate \in {~InCooldown /\ ~margin /\ ~PositionLocked(L1.led)} :
          \E ai \in (IF atGate THEN Nudges ELSE {NoNudge}) :
          \E liq \in (IF atGate THEN Depths ELSE {DepthFail}) :
          \E R \in {IF atGate THEN Gate(L1, Candidate(cur, ai), liq)
                    ELSE [L |-> L1, illiquid |-> FALSE]} :
            /\ Len(R.L.pos) <= MaxPositions
            /\ current_btc' = cur
            /\ allPos' = R.L.pos
            /\ positions' = R.L.led
            /\ queue' = R.L.q
            /\ notified_signals' = R.L.ns
            /\ seen' = R.L.seen
            /\ pc' = IF R.illiquid THEN "busy" ELSE "loop"
  /\ UNCHANGED <<now, market, book_up, book_down, cfg, paper_trade,
                 final_price, strikeSet, loggerVars, partVars>>

\* An iteration of the decision loop; the ticker answers or fails.
Tick == \E cur \in TickPrices \cup {NoPrice} : Iteration(cur)

\* The decision loop ends: the feed is closed and trade_loop sleeps 5 s.  The
\* books and the iteration's locals are not read again: they are set to their defaults.
LoopExit ==
  /\ pc \in {"loop", "busy"}
  /\ ~IsActive
  /\ pc' = "settle"
  /\ book_up' = DefaultBook
  /\ book_down' = DefaultBook
  /\ current_btc' = NoPrice
  /\ UNCHANGED <<now, market, positions, allPos, notified_signals, cfg,
                 paper_trade, final_price, seen, strikeSet,
                 queue, loggerVars, partVars>>

\* The end of trade_loop: the final price, and settle_positions if there is
\* one.  trade_loop returns: its market is not read again.
Settle(final) ==
  /\ pc = "settle"
  /\ final_price' = final
  /\ LET L == IF final = NoPrice THEN Ledger ELSE settle_positions(Ledger, final)
     IN /\ allPos' = L.pos
        /\ positions' = L.led
        /\ queue' = L.q
  /\ pc' = "resolve"
  /\ market' = NoMarket
  /\ UNCHANGED <<now, book_up, book_down, notified_signals, cfg,
                 paper_trade, current_btc, seen, strikeSet,
                 loggerVars, partVars>>

\* OrderBook.update: a "book" snapshot or a "price_change" carrying the
\* instrument's id sets best_bid and best_ask.
BookUpdate(book, q) == [best_bid |-> q[1], best_ask |-> q[2]]

\* The feed listener handles one message for one instrument.
FeedMessage(token, q) ==
  /\ pc = "loop"
  /\ IsActive
  /\ IF token = "UP"
     THEN book_up' = BookUpdate(book_up, q) /\ UNCHANGED book_down
     ELSE book_down' = BookUpdate(book_down, q) /\ UNCHANGED book_up
  /\ UNCHANGED <<now, pc, market, positions, allPos, notified_signals, cfg,
                 paper_trade, current_btc, final_price, seen, strikeSet, queue, loggerVars, partVars>>

\* The config watcher finds a newer document and reloads: load_config sets
\* the tunables.
ConfigReload(doc) ==
  /\ pc # "busy"
  /\ cfg' = load_config(cfg, doc)
  /\ UNCHANGED <<now, pc, market, book_up, book_down, positions, allPos,
                 notified_signals, paper_trade, current_btc, final_price,
                 seen, strikeSet, queue, loggerVars, partVars>>

\* ------------------------------------------------------- the trade logger
\* AsyncTradeLogger with its producers reduced to calls of log().  drain is
\* the position of run(): "start" (task created), "head" (at the loop head
\* after a write, without having suspended: no other task runs), "get"
\* (suspended in queue.get()), "sleep" (in the sleep after a write error),
\* "done" (returned).

\* The shutdown signal stop() enqueues.
Sentinel == [type |-> "None", time |-> 0]

\* The records handed to log() so far.
Logged ==
  Len(file) + Cardinality(dropped) + Len(SelectSeq(queue, LAMBDA r : r # Sentinel))

\* A producer calls log(record); the record carries its time.
Log ==
  /\ drain # "head"
  /\ Logged < MaxRecords
  /\ queue' = log(queue, [type |-> "EVENT", time |-> Logged + 1])
  /\ UNCHANGED <<engineVars, loggerVars, partVars>>

\* AsyncTradeLogger.stop
Stop ==
  /\ drain # "head"
  /\ logRunning
  /\ logRunning' = FALSE
  /\ queue' = Append(queue, Sentinel)
  /\ UNCHANGED <<engineVars, file, drain, dropped, partVars>>

\* open(filename, "a"); f.write(line): the line goes to the end of the file.
WriteLine(f, record) == Append(f, record)

\* The body of the loop of run() once queue.get() has a record: the break on
\* the shutdown signal, the write, the sleep after a write error.
Handle(ok) ==
  /\ queue # <<>>
  /\ queue' = Tail(queue)
  /\ IF Head(queue) = Sentinel
     THEN drain' = "done" /\ UNCHANGED <<file, dropped>>
     ELSE IF ok
          THEN /\ file' = WriteLine(file, Head(queue))
               /\ drain' = "head"
               /\ UNCHANGED dropped
          ELSE /\ dropped' = dropped \cup {Head(queue)}
               /\ drain' = "sleep"
               /\ UNCHANGED file

\* run() from the loop head: while self.running, then queue.get(), which
\* suspends on an empty queue only.
DrainHead(ok) ==
  /\ drain \in {"start", "head", "sleep"}
  /\ IF ~logRunning
     THEN drain' = "done" /\ UNCHANGED <<queue, file, dropped>>
     ELSE IF queue = <<>>
          THEN drain' = "get" /\ UNCHANGED <<queue, file, dropped>>
          ELSE Handle(ok)
  /\ UNCHANGED <<engineVars, logRunning, partVars>>

\* run() resumes in queue.get() with a record.
DrainGet(ok) ==
  /\ drain = "get"
  /\ Handle(ok)
  /\ UNCHANGED <<engineVars, logRunning, partVars>>

LoggerNext ==
  \/ Log
  \/ Stop
  \/ \E ok \in BOOLEAN : DrainHead(ok)
  \/ \E ok \in BOOLEAN : DrainGet(ok)

LoggerSpec == Init /\ [][LoggerNext]_vars

Next ==
  \/ Advance
  \/ \E listed \in BOOLEAN :
       \E candle \in (IF listed THEN {NoPrice, CandleOpen(now.win)} ELSE {NoPrice}) :
         \E connected \in (IF candle = NoPrice THEN {FALSE} ELSE BOOLEAN) :
           Resolve(listed, candle, connected)
  \/ Tick
  \/ LoopExit
  \/ \E final \in FinalPrices \cup {NoPrice} : Settle(final)
  \/ \E token \in Dirs : \E q \in Quotes(token) : FeedMessage(token, q)
  \/ \E doc \in Documents : ConfigReload(doc)

Spec == Init /\ [][Next]_vars

\* ----------------------------------------------- exits far from the strike
\* The engine on a run whose reference price stays 1000 above the strike,
\* where the model probability is 1.0, with an UP book quoted up to 0.99 and a
\* config document that is not edited: entries at 0.40, whose take-profit
\* level is 0.46, and at 0.90, whose level is the cap.

FarPrices == {51000}
FarQuotes == {<<45, 41>>, <<46, 41>>, <<98, 91>>, <<99, 91>>}

ExitNext ==
  \/ Advance
  \/ \E listed \in BOOLEAN :
       \E candle \in (IF listed THEN {NoPrice, CandleOpen(now.win)} ELSE {NoPrice}) :
         \E connected \in (IF candle = NoPrice THEN {FALSE} ELSE BOOLEAN) :
           Resolve(listed, candle, connected)
  \/ \E cur \in FarPrices \cup {NoPrice} : Iteration(cur)
  \/ LoopExit
  \/ \E final \in FinalPrices \cup {NoPrice} : Settle(final)
  \/ \E q \in FarQuotes : FeedMessage("UP", q)

ExitSpec == Init /\ [][ExitNext]_vars

\* ---------------------------------------------------- the probability model
\* ProbabilityStrategy.calculate_prob_up as a function of the current price,
\* for a strike, a time left and a volatility_per_min drawn at the start.  The
\* volatilities are the values the strategy can hold (the default 25, the
\* floor 5 of get_dynamic_volatility) and 0, where sigma_t = 0.

ProbeStrikes == {50000}
ProbePrices == {49000, 49900, 49980, 50000, 50020, 50100, 51000}
ProbeMinutes == {-1, 0, 10, 15}
Volatilities == {0, 5, 25}

ProbInit ==
  /\ EngineInit /\ queue = <<>> /\ LoggerIdle
  /\ probe \in [strike : ProbeStrikes, minutes_left : ProbeMinutes,
                volatility : Volatilities, out : {{}}]
  /\ conf_file = NoFile /\ last_mtime = 0 /\ loads = <<>> /\ raised = 0
  /\ SidesIdle

\* A call of calculate_prob_up with current price c; its result is kept.
Evaluate(c) ==
  /\ \A r \in probe.out : r[1] # c
  /\ probe' = [probe EXCEPT !.out = @ \cup
                 {<<c, calculate_prob_up(c, probe.strike, probe.minutes_left,
                                         probe.volatility)>>}]
  /\ UNCHANGED <<engineVars, queue, loggerVars, conf_file, last_mtime, loads,
                 raised, sideVars>>

ProbNext == \E c \in ProbePrices : Evaluate(c)

ProbSpec == ProbInit /\ [][ProbNext]_vars

\* ------------------------------------------------------- the config watcher
\* config_watcher polling a config document that is written and removed from
\* outside; the engine stands still.  At the start the document is absent, or
\* it is the one __init__ loaded.

ConfigInit ==
  /\ EngineInit /\ queue = <<>> /\ LoggerIdle
  /\ probe = NoProbe
  /\ conf_file \in {NoFile,
                    [exists |-> TRUE, mtime |-> 1,
                     doc |-> [kind |-> "object", body |-> cfg]]}
  /\ last_mtime = 0
  /\ loads = <<>>
  /\ raised = 0
  /\ SidesIdle

staticVars == <<now, pc, market, book_up, book_down, positions, allPos,
                notified_signals, paper_trade, current_btc, final_price,
                seen, strikeSet, queue, loggerVars, probe, raised, sideVars>>

\* The document is written: its modification time moves on.
WriteDocument(doc) ==
  /\ conf_file.mtime < MaxMtime
  /\ conf_file' = [exists |-> TRUE, mtime |-> conf_file.mtime + 1, doc |-> doc]
  /\ UNCHANGED <<staticVars, cfg, last_mtime, loads>>

\* The document is removed.
RemoveDocument ==
  /\ conf_file.exists
  /\ conf_file' = [conf_file EXCEPT !.exists = FALSE]
  /\ UNCHANGED <<staticVars, cfg, last_mtime, loads>>

\* A watcher that reloads at its first observation too.
NoBaseline(last) == TRUE

\* if last_mtime > 0: # Skip first run
HasBaseline(last) == last > 0

\* A poll that takes any modification time other than the recorded one for
\* a change.
WatchAnyChange ==
  /\ IF conf_file.exists /\ conf_file.mtime # last_mtime
     THEN /\ IF HasBaseline(last_mtime)
             THEN /\ cfg' = load_config(cfg, conf_file.doc)
                  /\ loads' = Append(loads, conf_file.doc.kind)
             ELSE UNCHANGED <<cfg, loads>>
          /\ last_mtime' = conf_file.mtime
     ELSE UNCHANGED <<cfg, loads, last_mtime>>
  /\ UNCHANGED <<staticVars, conf_file>>

\* One poll of config_watcher, between two of its sleeps.
Watch ==
  /\ IF conf_file.exists /\ conf_file.mtime > last_mtime
     THEN /\ IF HasBaseline(last_mtime)
             THEN /\ cfg' = load_config(cfg, conf_file.doc)
                  /\ loads' = Append(loads, conf_file.doc.kind)
             ELSE UNCHANGED <<cfg, loads>>
          /\ last_mtime' = conf_file.mtime
     ELSE UNCHANGED <<cfg, loads, last_mtime>>
  /\ UNCHANGED <<staticVars, conf_file>>

ConfigNext ==
  \/ \E doc \in Documents : WriteDocument(doc)
  \/ RemoveDocument
  \/ Watch

ConfigSpec == ConfigInit /\ [][ConfigNext]_vars

\* --------------------------------------------- errors in the main loop body
\* The engine with errors raised in the body of the main loop of run(): by
\* the performance analysis, the cleanup, the resolution, the strike capture
\* and the feed connection (the main task is at "resolve"), by an iteration of
\* the decision loop, by the end of trade_loop and the settlement.

\* The exceptions raised: a failed connection, a missing attribute or key.
ErrorKinds == {"ConnectionError", "AttributeError", "KeyError"}

\* A handler that lets every error through.
CatchesNothing(e) == FALSE

\* except Exception as e: every exception of ErrorKinds is an Exception.
Caught(e) == e \in ErrorKinds

\* The step the main task was about to run raises e.  The handler of run()
\* logs, sleeps 5 s and the loop goes to its next iteration; the window's
\* Market15m and the locals of trade_loop are not read again.
Raise(e) ==
  /\ raised < MaxErrors
  /\ raised' = raised + 1
  /\ pc' = IF Caught(e) THEN "resolve" ELSE "exited"
  /\ market' = NoMarket
  /\ book_up' = DefaultBook
  /\ book_down' = DefaultBook
  /\ current_btc' = NoPrice
  /\ final_price' = NoPrice
  /\ UNCHANGED <<now, positions, allPos, notified_signals, cfg, paper_trade,
                 seen, strikeSet, queue, loggerVars, probe, conf_file,
                 last_mtime, loads, sideVars>>

FaultNext ==
  \/ Next
  \/ \E e \in ErrorKinds : Raise(e)

FaultSpec == Init /\ [][FaultNext]_vars

\* ------------------------------------------------------------ properties

Closed == {"TP_HIT", "SL_HIT", "SETTLED"}
EntryTypes == {"V3_SMART_PAPER", "V3_SMART"}

\* The positions of the ledger whose status is OPEN.
OpenInLedger == {k \in 1..Len(positions) : allPos[positions[k]].status = "OPEN"}

\* A step that is one iteration of the decision loop with a reference price.
IsTick ==
  /\ pc \in {"loop", "busy"}
  /\ pc' \in {"loop", "busy"}
  /\ current_btc' # NoPrice
  /\ UNCHANGED <<now, cfg, book_up, book_down>>

\* C1: in every reachable state the ledger holds at most one position whose
\* status is OPEN.
C1_OneOpenPosition == Cardinality(OpenInLedger) <= 1

\* C1: a second position was opened after the first one left the ledger.
C1_Witness ==
  /\ Len(allPos) = 2
  /\ allPos[1].status \in Closed
  /\ positions = <<2>>
  /\ allPos[2].status = "OPEN"

\* C2: a position whose status is TP_HIT, SL_HIT or SETTLED does not have
\* status OPEN after any step.
C2_StatusNeverReopens ==
  [][\A i \in 1..Len(allPos) :
       allPos[i].status \in Closed =>
         /\ i <= Len(allPos')
         /\ allPos'[i].status # "OPEN"]_vars

\* C2: a position hit its take-profit, and a settlement of a later position
\* has run since.
C2_Witness ==
  /\ Len(allPos) = 2
  /\ allPos[1].status = "TP_HIT"
  /\ allPos[2].status = "SETTLED"

C4_DrainsBeforeExit ==
  drain = "done" =>
    \A i, j \in 1..Len(queue) :
      (i < j /\ queue[j] = Sentinel) => queue[i] = Sentinel

\* C5: execute_trade went past the de-duplication check at most once for each
\* direction of the current slug.
C5_OnePassPerSignal == \A d \in Dirs : seen.passed[d] <= 1

\* C5: execute_trade was called again for a pair whose first position was
\* closed by take-profit or stop-loss in the same window, and returned at the
\* check.
C5_Witness ==
  \E d \in Dirs :
    /\ seen.calls[d] = 2
    /\ seen.passed[d] = 1
    /\ \E i \in 1..Len(allPos) :
         /\ allPos[i].market_slug = seen.slug
         /\ allPos[i].direction = d
         /\ allPos[i].status \in {"TP_HIT", "SL_HIT"}

\* C6: while a window's decision loop runs, the ledger holds no OPEN position
\* of an earlier window.
C6_SettledBeforeNextWindow ==
  pc \in {"loop", "busy"} =>
    \A k \in OpenInLedger : allPos[positions[k]].market_slug >= market.slug

\* C7: a settlement with final price F and strike S gives every OPEN position
\* of the window status SETTLED, payout 1.0 if its direction is UP and F >= S
\* or DOWN and F < S, payout 0.0 otherwise, and pnl (payout - entry) / entry.
C7_SettlementPayout ==
  [][(pc = "settle" /\ final_price' # NoPrice) =>
       \A k \in 1..Len(positions) :
         LET i == positions[k]
             p == allPos[i]
             payout == IF (p.direction = "UP") <=> (final_price' >= market.strike)
                       THEN 100 ELSE 0
         IN (p.status = "OPEN" /\ p.market_slug = market.slug) =>
              /\ allPos'[i].status = "SETTLED"
              /\ allPos'[i].exit_price = payout
              /\ allPos'[i].pnl = <<payout - p.entry_price, p.entry_price>>]_vars

\* C7: settlements with F < S and with F = S have run: an UP position paid
\* 0.0 in one window, an UP position paid 1.0 at a tie in another.
C7_Witness ==
  /\ Len(allPos) = 2
  /\ allPos[1].status = "SETTLED" /\ allPos[1].direction = "UP"
  /\ allPos[1].exit_price = 0
  /\ allPos[2].status = "SETTLED" /\ allPos[2].direction = "UP"
  /\ allPos[2].exit_price = 100
  /\ final_price = CandleOpen(2)

\* C8: the strike of a slug is assigned at most once.
C8_StrikeAssignedOnce == strikeSet.times <= 1

\* C9: an iteration whose |current price - strike| is below
\* strike * safety_margin_pct makes no entry: no call of execute_trade, no new
\* position, no entry event.
C9_NoEntryInsideMargin ==
  [][(IsTick /\ Abs(current_btc' - market.strike) * 10000
                  < market.strike * cfg.safety_margin_pct) =>
       /\ seen'.calls = seen.calls
       /\ notified_signals' = notified_signals
       /\ Len(allPos') = Len(allPos)
       /\ \A k \in 1..Len(queue') :
            k > Len(queue) => queue'[k].type \notin EntryTypes]_vars

\* C9: an iteration ran 20 inside a margin of 30 with an empty ledger, the
\* execution switch on and the DOWN side quoted at 0.41.
C9_Witness ==
  /\ pc = "loop"
  /\ now.phase = 1
  /\ current_btc = 49980
  /\ market.strike = 50000
  /\ cfg.safety_margin_pct = 6
  /\ cfg.execution_enabled
  /\ positions = <<>>
  /\ book_down.best_ask = 41
  /\ seen.calls["DOWN"] = 0

\* C10 as stated: with a positive bid the stop-loss fires exactly when
\* bid <= entry * (1 - stop_loss_pct), the boundary included.
C10_BoundaryIncluded ==
  [][IsTick =>
       \A k \in 1..Len(positions) :
         LET i == positions[k]
             p == allPos[i]
             bid == BestBid(p.direction)
         IN (p.status = "OPEN" /\ p.market_slug = market.slug /\ bid > 0) =>
              (allPos'[i].status = "SL_HIT"
                 <=> bid * 100 <= p.entry_price * (100 - cfg.stop_loss_pct))]_vars

\* C10: with a positive bid the stop-loss fires for every bid below
\* entry * (1 - stop_loss_pct) and for no bid above it; at the boundary it
\* fires for entry 0.80 and bid 0.52 only: an entry of 0.40 with a stop of
\* 0.35 is closed at bid 0.25 and kept at bid 0.26.
C10_StopLossStrict ==
  [][IsTick =>
       \A k \in 1..Len(positions) :
         LET i == positions[k]
             p == allPos[i]
             bid == BestBid(p.direction)
         IN (p.status = "OPEN" /\ p.market_slug = market.slug /\ bid > 0) =>
              (allPos'[i].status = "SL_HIT"
                 <=> \/ bid * 100 < p.entry_price * (100 - cfg.stop_loss_pct)
                     \/ p.entry_price = 80 /\ bid = 52
                          /\ cfg.stop_loss_pct = 35)]_vars

\* C10: the stop-loss closed an entry of 0.40 at bid 0.25, and an entry of
\* 0.80 at its boundary 0.52.
C10_Witness ==
  /\ Len(allPos) = 2
  /\ \E i, j \in 1..2 :
       /\ allPos[i].status = "SL_HIT"
       /\ allPos[i].entry_price = 40 /\ allPos[i].exit_price = 25
       /\ allPos[j].status = "SL_HIT"
       /\ allPos[j].entry_price = 80 /\ allPos[j].exit_price = 52

TakeProfitTypes == {"TAKE_PROFIT_PAPER", "TAKE_PROFIT"}

\* The records a step puts on the logger's queue.
Enqueued == {n \in 1..Len(queue') : n > Len(queue)}

\* C11: an iteration with an OPEN position of its market, entry price e and
\* held-side best bid b, gives the position status TP_HIT if and only if
\* b >= min(e * 1.15, 0.99); when it does, the exit price is b, the position
\* is no longer in the ledger and exactly one take-profit event (the mode's
\* variant), carrying e and b, is enqueued; when it does not, none is.
C11_TakeProfitRule ==
  [][IsTick =>
       \A k \in 1..Len(positions) :
         LET i == positions[k]
             p == allPos[i]
             b == BestBid(p.direction)
             level == IF p.entry_price * 115 < 9900
                      THEN p.entry_price * 115 ELSE 9900
             events == {n \in Enqueued : queue'[n].type \in TakeProfitTypes}
         IN (p.status = "OPEN" /\ p.market_slug = market.slug) =>
              IF b * 100 >= level
              THEN /\ allPos'[i].status = "TP_HIT"
                   /\ allPos'[i].exit_price = b
                   /\ \A n \in 1..Len(positions') : positions'[n] # i
                   /\ Cardinality(events) = 1
                   /\ \A n \in events :
                        /\ queue'[n].direction = p.direction
                        /\ queue'[n].entry_price = p.entry_price
                        /\ queue'[n].exit_price = b
              ELSE /\ allPos'[i].status # "TP_HIT"
                   /\ events = {}]_vars

\* C11: an entry at 0.90 was closed at bid 0.99, the capped level, and an
\* entry at 0.40 at bid 0.46, its level of 1.15 times the entry.
C11_Witness ==
  /\ Len(allPos) = 2
  /\ \E i, j \in 1..2 :
       /\ allPos[i].status = "TP_HIT"
       /\ allPos[i].entry_price = 90 /\ allPos[i].exit_price = 99
       /\ allPos[j].status = "TP_HIT"
       /\ allPos[j].entry_price = 40 /\ allPos[j].exit_price = 46

\* C12: with minutes_left <= 0, calculate_prob_up returns 1.0 for a current
\* price at or above the strike and 0.0 for one below it, whatever the
\* volatility.
C12_ExpiredIsStep ==
  probe.minutes_left <= 0 =>
    \A r \in probe.out :
      r[2] = IF r[1] >= probe.strike THEN 1000 ELSE 0

\* C12: with no time left and the default volatility, the model was called
\* at the strike and 20 below it.
C12_Witness ==
  /\ probe.minutes_left = 0
  /\ probe.volatility = 25
  /\ <<50000, 1000>> \in probe.out
  /\ <<49980, 0>> \in probe.out

\* C13: for a fixed strike, time left and volatility (zero or positive), a
\* higher current price never gives a lower probability of a rise.
C13_Monotone ==
  \A a, b \in probe.out : a[1] <= b[1] => a[2] <= b[2]

\* C13: with ten minutes left and the default volatility, the model was
\* called at every price of the range, below, at and above the strike.
C13_Witness ==
  /\ probe.minutes_left = 10
  /\ probe.volatility = 25
  /\ {r[1] : r \in probe.out} = ProbePrices
  /\ <<49980, 400>> \in probe.out
  /\ <<50020, 600>> \in probe.out

\* C14: whatever the mode of its entry, a position of the iteration's market
\* that is in the ledger is closed by the take-profit rule and by the stop-loss
\* rule at the iteration where its held-side bid meets the rule, and by the
\* settlement of its window.
C14_LiveClosesLikePaper ==
  [][/\ IsTick =>
          \A k \in 1..Len(positions) :
            LET i == positions[k]
                p == allPos[i]
                b == BestBid(p.direction)
            IN (p.market_slug = market.slug /\ p.status \notin Closed) =>
                 /\ b * 100 >= Min(p.entry_price * 115, 9900) =>
                      allPos'[i].status = "TP_HIT"
                 /\ (b > 0 /\ b * 100 < p.entry_price * (100 - cfg.stop_loss_pct)) =>
                      allPos'[i].status = "SL_HIT"
     /\ (pc = "settle" /\ final_price' # NoPrice /\ market.strike # NoPrice) =>
          \A k \in 1..Len(positions) :
            LET i == positions[k]
                p == allPos[i]
            IN (p.market_slug = market.slug /\ p.status \notin Closed) =>
                 allPos'[i].status = "SETTLED"]_vars

\* A step in which the decision loop runs an iteration and acts on its
\* ledger, its queue or its locals.
Decides ==
  /\ pc \in {"loop", "busy"}
  /\ pc' \in {"loop", "busy"}
  /\ now' = now
  /\ <<positions, allPos, queue, notified_signals, seen, current_btc, pc>>'
       # <<positions, allPos, queue, notified_signals, seen, current_btc, pc>>

\* C15: an iteration of the decision loop works on one state of the two
\* books: the step changes neither book, a position it closes by stop-loss or
\* take-profit exits at the held side's best bid of that state, and a position
\* it opens is priced one cent under the best ask of that state, the ask
\* whose edge passed the gate.
C15_OneBookState ==
  [][Decides =>
       /\ book_up' = book_up
       /\ book_down' = book_down
       /\ \A i \in 1..Len(allPos) :
            (allPos[i].status = "OPEN" /\ allPos'[i].status \in {"SL_HIT", "TP_HIT"}) =>
              allPos'[i].exit_price = BestBid(allPos[i].direction)
       /\ \A j \in 1..Len(allPos') :
            j > Len(allPos) =>
              LET book == IF allPos'[j].direction = "UP" THEN book_up ELSE book_down
                  ask == IF book.best_ask > 0 THEN book.best_ask ELSE 50
              IN /\ allPos'[j].entry_price = Min(99, Max(1, ask - 1))
                 /\ ask * 10 + cfg.min_edge < 1000]_vars

\* C15: an iteration closed an UP position at the UP bid 0.52 and a DOWN
\* position entered at 0.40, one cent under the DOWN ask, is in the ledger.
C15_Witness ==
  /\ Len(allPos) = 2
  /\ allPos[1].status = "TP_HIT" /\ allPos[1].exit_price = 52
  /\ allPos[2].status = "OPEN" /\ allPos[2].direction = "DOWN"
  /\ allPos[2].market_slug = allPos[1].market_slug
  /\ allPos[2].entry_price = 40
  /\ book_up.best_bid = 52
  /\ book_down.best_ask = 41

\* C16: the decision loop never stands at the head of an iteration without
\* having been through a timed suspension since the iteration before.
C16_SleepsBetweenIterations == pc # "busy"

\* C17: the poll that records the watcher's first modification time calls
\* load_config for no document and leaves the tunables alone; load_config is
\* called only by a poll that finds a modification time already recorded.
C17_FirstObservationIsBaseline ==
  [][/\ (last_mtime = 0 /\ last_mtime' # 0) =>
          /\ last_mtime' = conf_file.mtime
          /\ loads' = loads
          /\ cfg' = cfg
     /\ loads' # loads => last_mtime # 0]_vars

\* C17: the first observation was made of a well-formed document that
\* differs from the tunables in force, and nothing was loaded.
C17_Witness ==
  /\ last_mtime # 0
  /\ last_mtime = conf_file.mtime
  /\ loads = <<>>
  /\ conf_file.exists
  /\ conf_file.doc.kind = "object"
  /\ conf_file.doc.body # cfg

\* C18: a reload of a document that is unparseable or not an object leaves
\* all six tunables as they were, and the poll runs to its end: it records the
\* document's modification time.
C18_MalformedKeepsTunables ==
  [][(loads' # loads /\ conf_file.doc.kind # "object") =>
       /\ cfg' = cfg
       /\ last_mtime' = conf_file.mtime]_vars

\* C18: the watcher reloaded a malformed document whose text held other
\* values than the tunables in force, and on a later poll a well-formed one.
C18_Witness ==
  /\ Len(loads) = 2
  /\ loads[1] \in {"unparseable", "not_object"}
  /\ loads[2] = "object"
  /\ cfg = conf_file.doc.body
  /\ cfg.execution_enabled

\* C19: in every state in which another task can run, the six tunables are
\* the values of one well-formed document: never some of one document and the
\* rest of another.
C19_WholeConfig ==
  \E doc \in Documents :
    /\ doc.kind = "object"
    /\ \A m \in 1..Len(TunableKeys) : cfg[TunableKeys[m]] = doc.body[TunableKeys[m]]

\* C19: the decision loop is between two iterations with a position OPEN that
\* was entered under the document with execution on, and the tunables are
\* those of the other document: a reload took place in the window.
C19_Witness ==
  /\ pc = "loop"
  /\ Len(positions) = 1
  /\ allPos[positions[1]].status = "OPEN"
  /\ allPos[positions[1]].market_slug = market.slug
  /\ ~cfg.execution_enabled
  /\ cfg.fee_pct = 3

\* C20: a step of the main loop body that raises an error leaves the main
\* task at the head of the main loop, and the main loop is never left.
C20_MainLoopSurvives ==
  [][/\ pc' # "exited"
     /\ raised' # raised => pc' = "resolve"]_vars

\* C20: an error was raised while a position was OPEN in the decision loop's
\* window, and the main loop has resolved the window again and is back in
\* its decision loop.
C20_Witness ==
  /\ raised = 1
  /\ pc = "loop"
  /\ strikeSet.times = 2
  /\ Len(positions) = 1
  /\ allPos[positions[1]].status = "OPEN"
  /\ allPos[positions[1]].market_slug = market.slug

\* The strike of the current window was asked for and not obtained: run()
\* resolved the window's market, every attempt at the candle failed, and no
\* earlier iteration of run() assigned the window's strike.
StrikeUnavailable ==
  /\ pc = "resolve"
  /\ seen.slug = now.win
  /\ strikeSet.slug # now.win

\* C21: once the strike of a window was not obtained in the five attempts of
\* an iteration of run(), no decision loop is started in that window.
C21_WindowSkipped ==
  [][(StrikeUnavailable /\ now'.win = now.win) => pc' # "loop"]_vars

\* ------------------------------------------------- settlement and redemption
\* The engine with the redemption of settle_positions observed: what the
\* relay, the nonce lookup and the signer answer is drawn at each settlement,
\* and the way the redemption went is kept in redeem.

\* The HTTP statuses of the relay; RelayDown is a request that raises.
RelayDown == 0
RelayStatuses == {200, 201, 400, RelayDown}

\* What a redemption meets: whether the engine has a CLOB client and a funder
\* address, whether the nonce lookup and the signer succeed, the relay's answer.
RedeemEnvs == [client : BOOLEAN, funder : BOOLEAN, nonce : BOOLEAN,
               signs : BOOLEAN, relay : RelayStatuses]

\* _raw_redeem: every failure is logged and the call returns.
raw_redeem(env) ==
  IF ~env.client \/ ~env.funder THEN "no_client_or_funder"
  ELSE IF ~env.nonce THEN "no_nonce"
  ELSE IF ~env.signs \/ env.relay = RelayDown THEN "error"
  ELSE IF env.relay \in {200, 201} THEN "redeemed"
  ELSE "rejected"

\* The redemption step of settle_positions: live mode with a client only.
Redemption(env) ==
  IF ~paper_trade /\ env.client THEN raw_redeem(env) ELSE "not_attempted"

\* A call of settle_positions for the market slug, with or without a call of
\* _raw_redeem, in the history.
CountSettlement(slug, redeems) ==
  LET old == IF settled.slug = slug THEN settled
             ELSE [slug |-> slug, times |-> 0, redeems |-> 0]
  IN [slug |-> slug, times |-> Bump(old.times),
      redeems |-> IF redeems THEN Bump(old.redeems) ELSE old.redeems]

\* The end of trade_loop, as Settle, with the redemption observed.
SettleRedeem(final, env) ==
  /\ pc = "settle"
  /\ final_price' = final
  /\ redeem' = IF final = NoPrice THEN "not_attempted" ELSE Redemption(env)
  /\ settled' = IF final = NoPrice THEN settled
                ELSE CountSettlement(market.slug, Redemption(env) # "not_attempted")
  /\ \E L \in {IF final = NoPrice THEN Ledger ELSE settle_positions(Ledger, final)} :
       /\ allPos' = L.pos
       /\ positions' = L.led
       /\ queue' = L.q
  /\ pc' = "resolve"
  /\ market' = NoMarket
  /\ UNCHANGED <<now, book_up, book_down, notified_signals, cfg,
                 paper_trade, current_btc, seen, strikeSet,
                 loggerVars, probe, conf_file, last_mtime, loads, raised,
                 funding, monitor, depth, feed, vol, probs, startup>>

RisePrices == {50100}

RedeemNext ==
  \/ Advance
  \/ \E listed \in BOOLEAN :
       \E candle \in (IF listed THEN {NoPrice, CandleOpen(now.win)} ELSE {NoPrice}) :
         \E connected \in (IF candle = NoPrice THEN {FALSE} ELSE BOOLEAN) :
           Resolve(listed, candle, connected)
  \/ \E cur \in RisePrices \cup {NoPrice} : Iteration(cur)
  \/ LoopExit
  \/ \E final \in FinalPrices \cup {NoPrice} :
       \E env \in RedeemEnvs : SettleRedeem(final, env)
  \/ \E q \in Quotes("UP") : FeedMessage("UP", q)

RedeemSpec == Init /\ [][RedeemNext]_vars

\* A position of the ledger that is of the decision loop's window and has
\* not been closed.
Held(i) ==
  /\ allPos[i].market_slug = market.slug
  /\ allPos[i].status \notin Closed

\* C22: in live mode, a settlement whose redemption did not succeed settles
\* every position of the window that the ledger holds unclosed, enqueues a
\* SETTLED event for it, and returns the main task to the head of its loop.
C22_RedeemFailureStillSettles ==
  [][(pc = "settle" /\ ~paper_trade /\ final_price' # NoPrice
        /\ redeem' # "redeemed") =>
       /\ pc' = "resolve"
       /\ \A k \in 1..Len(positions) :
            Held(positions[k]) =>
              /\ allPos'[positions[k]].status = "SETTLED"
              /\ Len(queue') > Len(queue)]_vars

\* ------------------------------------------- the funding monitor's history
\* FundingMonitor.get_funding_history on a history drawn at the start: records
\* of two symbols in either case, stamped 0 to 3 hours before the query.

MaxHistory == 3

\* The hour of the queries: datetime.now().
QueryHour == 3

Symbols == {"BTC", "btc", "ETH"}
Stamps == {0, 2, 3}
Records == [symbol : Symbols, timestamp : Stamps]
QuerySymbols == {"BTC", "eth"}
QueryHours == {1, 24}

\* The histories of at most MaxHistory records.
Histories == UNION {[1..n -> Records] : n \in 0..MaxHistory}

\* str.upper() on the symbols.
Upper(sym) ==
  CASE sym \in {"BTC", "btc"} -> "BTC"
    [] sym \in {"ETH", "eth"} -> "ETH"

\* cutoff_time = datetime.now().timestamp() - (hours * 3600), in hours.
CutoffTime(current, hours) == current - hours

\* record["timestamp"] is not before the cutoff.
WithinHours(record, current, hours) ==
  record.timestamp >= CutoffTime(current, hours)

\* get_funding_history: the comprehension keeps the records of the symbol;
\* cutoff_time is computed and not read.
get_funding_history(history, symbol, hours) ==
  LET symbol_upper == Upper(symbol)
  IN SelectSeq(history, LAMBDA record : Upper(record.symbol) = symbol_upper)

HistoryInit ==
  /\ EngineInit /\ queue = <<>> /\ LoggerIdle
  /\ probe = NoProbe /\ conf_file = NoFile /\ last_mtime = 0 /\ loads = <<>>
  /\ raised = 0
  /\ redeem = "none"
  /\ monitor = NoMonitor
  /\ depth = NoDepth
  /\ feed = <<>>
  /\ LateIdle
  /\ funding \in [history : Histories, now : {QueryHour}, out : {{}}]

\* A call of get_funding_history; its arguments and its result are kept.
Query(symbol, hours) ==
  /\ \A r \in funding.out : ~(r.symbol = symbol /\ r.hours = hours)
  /\ funding' = [funding EXCEPT !.out = @ \cup
                   {[symbol |-> symbol, hours |-> hours,
                     result |-> get_funding_history(funding.history, symbol, hours)]}]
  /\ UNCHANGED <<engineVars, queue, loggerVars, probe, conf_file, last_mtime,
                 loads, raised, redeem, monitor, depth, feed, lateVars>>

HistoryNext == \E symbol \in QuerySymbols : \E hours \in QueryHours : Query(symbol, hours)

HistorySpec == HistoryInit /\ [][HistoryNext]_vars

\* C24: every answer of get_funding_history(symbol, hours) is the history
\* restricted, in its order, to the records of the symbol (compared without
\* case) whose timestamp is within the last `hours` hours.
C24_HistoryFiltered ==
  \A r \in funding.out :
    r.result = SelectSeq(funding.history,
                 LAMBDA record : /\ Upper(record.symbol) = Upper(r.symbol)
                                 /\ WithinHours(record, funding.now, r.hours))

\* --------------------------------------------- the funding monitor's task
\* FundingMonitor under one caller that awaits each of its calls of
\* start_monitoring and stop_monitoring, and the event loop running the
\* monitor-loop tasks.  A task is "created" (not yet run), "checking"
\* (suspended in exchange.get_all_funding_rates), "sleeping" (in the sleep
\* between two checks) or "done".

MaxCalls == 4
MaxChecks == 3

\* A start_monitoring without its guard.
NeverRunning(m) == FALSE

\* if self._running: return
AlreadyRunning(m) == m.running

\* The caller's call is added to the history.
Called(m, name) == [m EXCEPT !.calls = Append(@, name), !.stopped = FALSE]

\* start_monitoring: no suspension inside.
start_monitoring ==
  /\ monitor.caller = "idle"
  /\ Len(monitor.calls) < MaxCalls
  /\ monitor' =
       IF AlreadyRunning(monitor) THEN Called(monitor, "start")
       ELSE [Called(monitor, "start") EXCEPT
               !.running = TRUE,
               !.tasks = Append(@, "created"),
               !.task = Len(monitor.tasks) + 1]
  /\ UNCHANGED <<engineVars, queue, loggerVars, probe, conf_file, last_mtime,
                 loads, raised, redeem, funding, depth, feed, lateVars>>

\* stop_monitoring up to `await self._task`: _running is cleared and the
\* task's cancellation is requested.  With no task, or a task that is done,
\* the await does not suspend and the call returns.
stop_monitoring ==
  /\ monitor.caller = "idle"
  /\ Len(monitor.calls) < MaxCalls
  /\ LET m == [Called(monitor, "stop") EXCEPT !.running = FALSE]
     IN monitor' =
          IF monitor.task = 0 \/ monitor.tasks[monitor.task] = "done"
          THEN [m EXCEPT !.stopped = TRUE]
          ELSE [m EXCEPT !.cancel = @ \cup {monitor.task},
                         !.caller = "stopping"]
  /\ UNCHANGED <<engineVars, queue, loggerVars, probe, conf_file, last_mtime,
                 loads, raised, redeem, funding, depth, feed, lateVars>>

\* The awaited task is done: stop_monitoring returns, whether the await
\* raised CancelledError or not.
StopReturns ==
  /\ monitor.caller = "stopping"
  /\ monitor.tasks[monitor.task] = "done"
  /\ monitor' = [monitor EXCEPT !.caller = "idle", !.stopped = TRUE]
  /\ UNCHANGED <<engineVars, queue, loggerVars, probe, conf_file, last_mtime,
                 loads, raised, redeem, funding, depth, feed, lateVars>>

\* The event loop resumes task i of _monitor_loop, which runs to its next
\* suspension.  A task whose cancellation was requested gets CancelledError
\* where it is suspended (or is never run): it passes the `except Exception`
\* of _check_funding_rates and ends the loop.  Otherwise the task goes from
\* the loop test into a check, or from the check into the sleep.
MonitorStep(i) ==
  /\ monitor.tasks[i] # "done"
  /\ IF i \in monitor.cancel
     THEN monitor' = [monitor EXCEPT !.tasks[i] = "done", !.cancel = @ \ {i}]
     ELSE IF monitor.tasks[i] = "checking"
     THEN monitor' = [monitor EXCEPT !.tasks[i] = "sleeping"]
     ELSE IF monitor.running
     THEN /\ monitor.checks < MaxChecks
          /\ monitor' = [monitor EXCEPT !.tasks[i] = "checking",
                                        !.checks = @ + 1]
     ELSE monitor' = [monitor EXCEPT !.tasks[i] = "done"]
  /\ UNCHANGED <<engineVars, queue, loggerVars, probe, conf_file, last_mtime,
                 loads, raised, redeem, funding, depth, feed, lateVars>>

MonitorNext ==
  \/ start_monitoring
  \/ stop_monitoring
  \/ StopReturns
  \/ \E i \in 1..Len(monitor.tasks) : MonitorStep(i)

MonitorSpec == Init /\ [][MonitorNext]_vars

\* The monitor-loop tasks that have not ended.
ActiveTasks == {i \in 1..Len(monitor.tasks) : monitor.tasks[i] # "done"}

\* C23: at most one monitor-loop task has not ended; a start_monitoring
\* leaves _running set, creates one task if the monitor was not running and
\* none if it was; once stop_monitoring has returned, _running is false and
\* no funding check is begun until the next start.
C23_OneMonitorTask ==
  /\ [](Cardinality(ActiveTasks) <= 1)
  /\ [](monitor.stopped => ~monitor.running)
  /\ [][/\ (Len(monitor'.calls) > Len(monitor.calls)
             /\ monitor'.calls[Len(monitor'.calls)] = "start") =>
               /\ monitor'.running
               /\ Len(monitor'.tasks) =
                    Len(monitor.tasks) + (IF monitor.running THEN 0 ELSE 1)
        /\ monitor.stopped => monitor'.checks = monitor.checks]_vars

\* C23: the monitor was started twice in a row, stopped while its task was
\* in a check, and started again: the first task has ended, the second is
\* in a check.
C23_Witness ==
  /\ monitor.calls = <<"start", "start", "stop", "start">>
  /\ monitor.tasks = <<"done", "checking">>
  /\ monitor.checks = 2
  /\ monitor.running

\* ------------------------------------------------ entries at the book's edge
\* The engine on a run whose reference price stays 100 above the strike, with
\* books quoted at the lowest ask 0.01, with an ask of 0 (a price_change whose
\* best_ask is "0"), in mid-range, and at 0.81, where the UP edge with ten
\* minutes left is 0.087.

EdgeQuotes(token) ==
  IF token = "UP" THEN {<<0, 1>>, <<0, 0>>, <<26, 41>>, <<52, 81>>}
  ELSE {<<0, 1>>}

EntryNext ==
  \/ Advance
  \/ \E listed \in BOOLEAN :
       \E candle \in (IF listed THEN {NoPrice, CandleOpen(now.win)} ELSE {NoPrice}) :
         \E connected \in (IF candle = NoPrice THEN {FALSE} ELSE BOOLEAN) :
           Resolve(listed, candle, connected)
  \/ \E cur \in RisePrices \cup {NoPrice} : Iteration(cur)
  \/ LoopExit
  \/ \E final \in FinalPrices \cup {NoPrice} : Settle(final)
  \/ \E token \in Dirs : \E q \in EdgeQuotes(token) : FeedMessage(token, q)

EntrySpec == Init /\ [][EntryNext]_vars

\* The step appends a position to the engine's position objects.
Enters == Len(allPos') > Len(allPos)

\* The book of a direction.
BookOf(direction) == IF direction = "UP" THEN book_up ELSE book_down

\* C25: every entry price is the target side's best ask less 0.01, clamped
\* to [0.01, 0.99], and is strictly below that best ask.
C25_EntryBelowAsk ==
  [][Enters =>
       LET p == allPos'[Len(allPos')]
           ask == BookOf(p.direction).best_ask
       IN /\ p.entry_price = Min(99, Max(1, ask - 1))
          /\ p.entry_price >= 1 /\ p.entry_price <= 99
          /\ p.entry_price < ask]_vars

\* C25, amended: every entry price is the target side's price (its best ask,
\* or 0.50 when the book's best ask is not positive) less 0.01, clamped to
\* [0.01, 0.99]; it is strictly below that price when the price is 0.02 or
\* more, and equal to it when the price is 0.01.
C25_EntryClamped ==
  [][Enters =>
       LET p == allPos'[Len(allPos')]
           ask == MarketPrice(BookOf(p.direction))
       IN /\ p.entry_price = Min(99, Max(1, ask - 1))
          /\ p.entry_price >= 1 /\ p.entry_price <= 99
          /\ ask >= 2 => p.entry_price < ask
          /\ ask = 1 => p.entry_price = ask]_vars

\* C25: positions were entered at 0.01 on a book whose best ask is 0.01 and
\* at 0.49 on a book whose best ask is 0.
C25_Witness ==
  /\ Len(allPos) = 2
  /\ allPos[1].entry_price = 1
  /\ allPos[2].entry_price = 49
  /\ allPos[2].market_slug = market.slug
  /\ book_up.best_ask = 0
  /\ pc = "loop"

\* The step calls execute_trade for the direction.
Attempts(direction) == seen'.calls[direction] # seen.calls[direction]

\* The edges of the iteration of the step for a nudge ai and a fee, in
\* permille: probability less ask less fee, for UP and for DOWN.
EdgesOf(ai, fee) ==
  LET prob_up == Blend(ai, calculate_prob_up(current_btc', market.strike,
                                             MinutesLeft, volatility_per_min))
  IN [UP |-> prob_up - MarketPrice(book_up) * 10 - fee,
      DOWN |-> (1000 - prob_up) - MarketPrice(book_down) * 10 - fee]

\* The iteration of the step, with the fee, attempts what the edge rule
\* allows: UP only with edge_up > min_edge, DOWN only with edge_up <= min_edge
\* and edge_down > min_edge.
EdgeRule(fee) ==
  \E ai \in Nudges :
    LET edge == EdgesOf(ai, fee)
    IN /\ Attempts("UP") => edge["UP"] > cfg.min_edge
       /\ Attempts("DOWN") => /\ edge["UP"] <= cfg.min_edge
                              /\ edge["DOWN"] > cfg.min_edge

GateDepths == Depths \cup {[bid_depth |-> 300, ask_depth |-> 199],
                           [bid_depth |-> 40, ask_depth |-> 200],
                           [bid_depth |-> 1000, ask_depth |-> 200]}

GatePrices == {49900, 50100}

\* One top of book for each token, asked at 0.41.
GateQuotes(token) == IF token = "UP" THEN <<26, 41>> ELSE <<25, 41>>

\* A gate that examines the UP token's depth whatever the candidate.
TargetDepthProxy(candidate, liq_up, liq_down) == [token |-> "UP", liq |-> liq_up]

\* target_liq: the UP depth already fetched if edge_up > min_edge, else the
\* DOWN depth.
TargetDepth(candidate, liq_up, liq_down) ==
  IF candidate = "UP" THEN [token |-> "UP", liq |-> liq_up]
  ELSE [token |-> "DOWN", liq |-> liq_down]

\* One iteration of the decision loop, as Iteration, with its depth fetches
\* observed.
DepthIteration(cur) ==
  /\ pc \in {"loop", "busy"}
  /\ IsActive
  /\ IF cur = NoPrice
     THEN /\ current_btc' = NoPrice
          /\ pc' = "loop"
          /\ UNCHANGED <<positions, allPos, notified_signals, queue, seen, depth>>
     ELSE \E L1 \in {check_take_profit(check_stop_loss(Ledger))} :
          \E margin \in {InSafetyMargin(cur, market.strike, cfg.safety_margin_pct)} :
          \E atGate \in {~InCooldown /\ ~margin /\ ~PositionLocked(L1.led)} :
          \E ai \in (IF atGate THEN Nudges ELSE {NoNudge}) :
          \E candidate \in {IF atGate THEN Candidate(cur, ai) ELSE "NONE"} :
          \E liq_up \in (IF atGate THEN GateDepths ELSE {DepthFail}) :
          \E liq_down \in (IF atGate /\ candidate # "UP" THEN GateDepths
                           ELSE {DepthFail}) :
          \E target \in {TargetDepth(candidate, liq_up, liq_down)} :
          \E R \in {IF atGate THEN Gate(L1, candidate, target.liq)
                    ELSE [L |-> L1, illiquid |-> FALSE]} :
            /\ Len(R.L.pos) <= MaxPositions
            /\ current_btc' = cur
            /\ allPos' = R.L.pos
            /\ positions' = R.L.led
            /\ queue' = R.L.q
            /\ notified_signals' = R.L.ns
            /\ seen' = R.L.seen
            /\ depth' = IF atGate THEN target ELSE NoDepth
            /\ pc' = IF R.illiquid THEN "busy" ELSE "loop"
  /\ UNCHANGED <<now, market, book_up, book_down, cfg, paper_trade,
                 final_price, strikeSet, loggerVars, probe, conf_file,
                 last_mtime, loads, raised, redeem, funding, monitor, feed,
                 lateVars>>

GateNext ==
  \/ Advance
  \/ \E listed \in BOOLEAN :
       \E candle \in (IF listed THEN {NoPrice, CandleOpen(now.win)} ELSE {NoPrice}) :
         \E connected \in (IF candle = NoPrice THEN {FALSE} ELSE BOOLEAN) :
           Resolve(listed, candle, connected)
  \/ \E cur \in GatePrices \cup {NoPrice} : DepthIteration(cur)
  \/ LoopExit
  \/ \E final \in FinalPrices \cup {NoPrice} : Settle(final)
  \/ \E token \in Dirs : FeedMessage(token, GateQuotes(token))

GateSpec == Init /\ [][GateNext]_vars

\* C27: an iteration attempts an entry in a direction only if the depth its
\* gate examined is that of the direction's own token, with ask depth of at
\* least 200 and a ratio of bid depth to ask depth of at least 0.2 for UP and
\* at most 5.0 for DOWN; with the snapshot of a failed fetch (ask depth 0)
\* the iteration attempts nothing.
C27_OwnDepthGate ==
  [][IsTick =>
       /\ \A D \in Dirs :
            Attempts(D) =>
              /\ depth'.token = D
              /\ depth'.liq.ask_depth >= 200
              /\ D = "UP" => depth'.liq.bid_depth * 10 >= 2 * depth'.liq.ask_depth
              /\ D = "DOWN" => depth'.liq.bid_depth <= 5 * depth'.liq.ask_depth
       /\ (depth'.liq = DepthFail) => \A D \in Dirs : ~Attempts(D)]_vars

\* C27: DOWN was attempted and entered on a DOWN depth at the thresholds
\* (ask depth 200, ratio 5.0).
C27_Witness ==
  /\ pc = "loop"
  /\ depth = [token |-> "DOWN", liq |-> [bid_depth |-> 1000, ask_depth |-> 200]]
  /\ seen.slug = market.slug
  /\ seen.calls["DOWN"] = 1
  /\ Len(positions) = 1
  /\ allPos[positions[1]].direction = "DOWN"
  /\ allPos[positions[1]].market_slug = market.slug

\* C28: an iteration that runs while execution_enabled is false, whatever
\* signal passes its gates, creates no position, adds none to the ledger and
\* enqueues no entry event.
C28_DisabledIsObserveOnly ==
  [][(IsTick /\ ~cfg.execution_enabled) =>
       /\ Len(allPos') = Len(allPos)
       /\ \A k \in 1..Len(positions') : \E j \in 1..Len(positions) :
            positions'[k] = positions[j]
       /\ \A n \in Enqueued : queue'[n].type \notin EntryTypes]_vars

\* C28: with execution_enabled false, an UP signal of the window passed every
\* gate and the de-duplication: it is in notified_signals, and there is no
\* position and no record.
C28_Witness ==
  /\ ~cfg.execution_enabled
  /\ pc = "loop"
  /\ seen.slug = market.slug
  /\ seen.passed["UP"] = 1
  /\ <<market.slug, "UP">> \in notified_signals
  /\ allPos = <<>>
  /\ positions = <<>>
  /\ queue = <<>>

\* C29: the step in which run() enters the decision loop of a window it has
\* not traded before leaves the de-duplication set empty, and while a
\* window is traded the set holds no entry of an earlier window.
C29_DedupClearedPerWindow ==
  /\ [][(pc = "resolve" /\ pc' = "loop" /\ strikeSet'.times = 1) =>
          notified_signals' = {}]_vars
  /\ [](pc \in {"loop", "busy"} =>
          \A s \in notified_signals : s[1] = market.slug)

\* ------------------------------------------------- the feed's price changes
\* The feed listener on "price_change" messages during a window's decision
\* loop: a message has a top-level asset_id ("NONE" when the key is absent)
\* and one entry in price_changes, with its own asset_id, best_bid and
\* best_ask.

Bids == {26, 52}
Asks == {41}
PriceChanges ==
  [asset_id : {"UP", "DOWN", "NONE"},
   change : [asset_id : Dirs, best_bid : Bids, best_ask : Asks]]

\* OrderBook.update for a "price_change": the entries of price_changes whose
\* asset_id is the book's set best_bid and best_ask.
OrderBookUpdate(book, token, msg) ==
  IF msg.change.asset_id = token
  THEN [best_bid |-> msg.change.best_bid, best_ask |-> msg.change.best_ask]
  ELSE book

\* The batch branch of _process: an entry of price_changes sets the best_ask
\* of its instrument's book.
BatchUpdate(book, token, msg) ==
  IF msg.change.asset_id = token
  THEN [book EXCEPT !.best_ask = msg.change.best_ask]
  ELSE book

\* WebSocketManagerV3._process: by the top-level asset_id the message goes
\* to update() of the UP book or of the DOWN book; without one, the batch
\* branch.
Process(msg) ==
  /\ pc = "loop"
  /\ IsActive
  /\ feed' = <<msg>>
  /\ book_up' = IF msg.asset_id = "UP" THEN OrderBookUpdate(book_up, "UP", msg)
                ELSE IF msg.asset_id = "DOWN" THEN book_up
                ELSE BatchUpdate(book_up, "UP", msg)
  /\ book_down' = IF msg.asset_id = "UP" THEN book_down
                  ELSE IF msg.asset_id = "DOWN"
                  THEN OrderBookUpdate(book_down, "DOWN", msg)
                  ELSE BatchUpdate(book_down, "DOWN", msg)
  /\ UNCHANGED <<now, pc, market, positions, allPos, notified_signals, cfg,
                 paper_trade, current_btc, final_price, seen, strikeSet, queue,
                 loggerVars, probe, conf_file, last_mtime, loads, raised,
                 redeem, funding, monitor, depth, lateVars>>

FeedNext ==
  \/ Advance
  \/ \E listed \in BOOLEAN :
       \E candle \in (IF listed THEN {NoPrice, CandleOpen(now.win)} ELSE {NoPrice}) :
         \E connected \in (IF candle = NoPrice THEN {FALSE} ELSE BOOLEAN) :
           Resolve(listed, candle, connected)
  \/ \E cur \in RisePrices \cup {NoPrice} : Iteration(cur)
  \/ LoopExit
  \/ \E final \in FinalPrices \cup {NoPrice} : Settle(final)
  \/ \E msg \in PriceChanges : Process(msg)

FeedSpec == Init /\ [][FeedNext]_vars

\* C30: once the feed has processed a price-change message for an instrument
\* of the window, with the instrument's id at the top level or only inside
\* price_changes, the instrument's book has the message's best_bid and
\* best_ask and the other book is as it was.
C30_PriceChangeSetsBidAndAsk ==
  [][(pc = "loop" /\ feed' # feed) =>
       LET msg == feed'[1]
           quote == [best_bid |-> msg.change.best_bid,
                     best_ask |-> msg.change.best_ask]
       IN msg.asset_id \in {msg.change.asset_id, "NONE"} =>
            IF msg.change.asset_id = "UP"
            THEN book_up' = quote /\ book_down' = book_down
            ELSE book_down' = quote /\ book_up' = book_up]_vars

\* ------------------------------------------------ books without liquidity
\* The engine with a feed that also delivers books without liquidity: a
\* price_change whose best_bid and best_ask are null sets the defaults
\* (bid 0, ask 1.0), one whose best_bid alone is null a bid of 0.

QuietQuotes(token) ==
  IF token = "UP" THEN {<<26, 41>>, <<0, 100>>, <<0, 41>>}
  ELSE {<<25, 41>>, <<0, 100>>}

QuietNext ==
  \/ Advance
  \/ \E listed \in BOOLEAN :
       \E candle \in (IF listed THEN {NoPrice, CandleOpen(now.win)} ELSE {NoPrice}) :
         \E connected \in (IF candle = NoPrice THEN {FALSE} ELSE BOOLEAN) :
           Resolve(listed, candle, connected)
  \/ \E cur \in GatePrices \cup {NoPrice} : Iteration(cur)
  \/ LoopExit
  \/ \E final \in FinalPrices \cup {NoPrice} : Settle(final)
  \/ \E token \in Dirs : \E q \in QuietQuotes(token) : FeedMessage(token, q)

QuietSpec == Init /\ [][QuietNext]_vars

\* The positions of the ledger that are OPEN, of the decision loop's window
\* and held in the direction's instrument.
OpenIn(direction) ==
  {i \in {positions[k] : k \in 1..Len(positions)} :
     /\ allPos[i].status = "OPEN"
     /\ allPos[i].market_slug = market.slug
     /\ allPos[i].direction = direction}

\* C31: an iteration run while an instrument's book holds the defaults
\* (bid 0, ask 1.0) attempts no entry on the instrument and closes no
\* position held in it, by stop-loss or by take-profit; an iteration run
\* while an instrument's best bid is not positive closes no position held
\* in it by stop-loss.
C31_DefaultsAreNoSignal ==
  [][IsTick =>
       \A D \in Dirs :
         /\ BookOf(D) = DefaultBook =>
              /\ ~Attempts(D)
              /\ \A i \in OpenIn(D) : allPos'[i].status = "OPEN"
         /\ BestBid(D) <= 0 =>
              \A i \in OpenIn(D) : allPos'[i].status # "SL_HIT"]_vars

\* C31: an UP position entered at 0.40 with the price above the strike is
\* OPEN in the ledger, the UP book has gone back to the defaults, and a later
\* iteration has run with the price below the strike.
C31_Witness ==
  /\ pc = "loop"
  /\ current_btc = 49900
  /\ book_up = DefaultBook
  /\ Len(positions) = 1
  /\ allPos[positions[1]].status = "OPEN"
  /\ allPos[positions[1]].direction = "UP"
  /\ allPos[positions[1]].entry_price = 40
  /\ allPos[positions[1]].market_slug = market.slug
  /\ seen.calls["UP"] = 1

\* A step that is one iteration of the decision loop, with or without a
\* reference price.
IsIteration ==
  /\ pc \in {"loop", "busy"}
  /\ pc' \in {"loop", "busy"}
  /\ UNCHANGED <<now, cfg, market, book_up, book_down>>

\* C32: every iteration of the decision loop, the ones whose reference-price
\* fetch fails included, applies the stop-loss rule and the take-profit rule
\* to each OPEN position of its window at the held side's best bid.
C32_ExitsEveryIteration ==
  [][IsIteration =>
       \A D \in Dirs : \A i \in OpenIn(D) :
         LET p == allPos[i]
             bid == BestBid(D)
         IN /\ (bid > 0 /\ StopLossFires(p.entry_price, bid, cfg.stop_loss_pct)) =>
                 allPos'[i].status = "SL_HIT"
            /\ TakeProfitFires(p.entry_price, bid) =>
                 allPos'[i].status = "TP_HIT"]_vars

\* ------------------------------------------------------ volatility refresh
\* The refresh of strategy.volatility_per_min in the decision loop, every
\* minute: the Deribit index first, the Binance closes otherwise.  Prices are
\* dollars, the index is percent, volatility_per_min hundredths of a dollar.

\* The most closes a klines response carries.
MaxCloses == 3

\* What get_dvol returns for a response that carries no data.
NoDataDvol == 55
\* get_dvol's None.
NoDvol == -1
\* The floor of the realized volatility, 5.0.
VolatilityFloor == 500
\* sqrt(365 * 24 * 60), in hundredths.
SqrtMinutesInYear == 72498

\* What the request of get_dvol meets: a response whose last row closes at
\* close, a response without data, a request or a parse that raises.
DvolCloses == {40, 60}
DvolResponses ==
  [kind : {"value"}, close : DvolCloses]
    \cup [kind : {"no_data", "error"}, close : {0}]

\* What the request of get_dynamic_volatility meets: the closes of the rows,
\* or a request that raises.
Closes == {50000, 50002, 50040}
CloseLists == UNION {[1..n -> Closes] : n \in 0..MaxCloses}
KlineResponses ==
  [kind : {"closes"}, closes : CloseLists] \cup [kind : {"error"}, closes : {<<>>}]

\* DeribitData.get_dvol
get_dvol(resp) ==
  IF resp.kind = "value" THEN resp.close
  ELSE IF resp.kind = "no_data" THEN NoDataDvol
  ELSE NoDvol

RECURSIVE SumSeq(_)
SumSeq(q) == IF q = <<>> THEN 0 ELSE Head(q) + SumSeq(Tail(q))

\* math.sqrt, rounded down: the largest r of lo..hi with r * r <= x.
RECURSIVE SqrtIn(_, _, _)
SqrtIn(x, lo, hi) ==
  IF lo = hi THEN lo
  ELSE LET mid == (lo + hi + 1) \div 2
       IN IF mid * mid <= x THEN SqrtIn(x, mid, hi) ELSE SqrtIn(x, lo, mid - 1)

ISqrt(x) == SqrtIn(x, 0, 46340)

\* math.sqrt(statistics.variance(diffs)), in hundredths: the sample variance.
StdDev(diffs) ==
  LET n == Len(diffs)
      squares == [i \in 1..n |-> diffs[i] * diffs[i]]
      num == n * SumSeq(squares) - SumSeq(diffs) * SumSeq(diffs)
  IN ISqrt((10000 * num) \div (n * (n - 1)))

\* BinanceData.get_dynamic_volatility
get_dynamic_volatility(resp) ==
  IF resp.kind = "error" THEN DefaultVolatility
  ELSE LET closes == resp.closes
       IN IF Len(closes) < 2 THEN DefaultVolatility
          ELSE LET diffs == [i \in 1..(Len(closes) - 1) |-> closes[i + 1] - closes[i]]
               IN IF Len(diffs) > 1
                  THEN (IF StdDev(diffs) < VolatilityFloor THEN VolatilityFloor
                        ELSE StdDev(diffs))
                  ELSE DefaultVolatility

\* ProbabilityStrategy.update_from_deribit
update_from_deribit(old, dvol, current_price) ==
  IF dvol = NoDvol \/ dvol <= 0 THEN old
  ELSE (current_price * dvol * 100) \div SqrtMinutesInYear

\* The refresh block of an iteration of the decision loop whose ticker
\* answered cur, at a second that is a multiple of 60.
Refresh(cur, d, k) ==
  /\ \E dvol \in {get_dvol(d)} :
       vol' = [volatility_per_min |->
                 IF dvol # NoDvol /\ dvol # 0
                 THEN update_from_deribit(vol.volatility_per_min, dvol, cur)
                 ELSE get_dynamic_volatility(k),
               refreshed |-> TRUE, price |-> cur, dvol |-> d,
               klines |-> IF dvol # NoDvol /\ dvol # 0
                          THEN [kind |-> "none", closes |-> <<>>] ELSE k]
  /\ UNCHANGED <<engineVars, queue, loggerVars, probe, conf_file, last_mtime,
                 loads, raised, redeem, funding, monitor, depth, feed,
                 probs, settled, startup>>

VolNext ==
  \E cur \in GatePrices : \E d \in DvolResponses : \E k \in KlineResponses :
    Refresh(cur, d, k)

VolSpec == Init /\ [][VolNext]_vars

\* The realized source delivers no standard deviation.
RealizedFails(k) == k.kind # "closes" \/ Len(k.closes) < 3

\* The standard deviation of the successive differences of the closes.
Realized(k) ==
  StdDev([i \in 1..(Len(k.closes) - 1) |-> k.closes[i + 1] - k.closes[i]])

\* C33: after a refresh, volatility_per_min is derived from the index value if
\* the implied-volatility source delivered one; if it delivered none (an
\* error or a response without data) it is the realized volatility, not below
\* 5.0; and it is 25.0 if the realized source failed as well.
C33_VolatilityFallback ==
  vol.refreshed =>
    /\ vol.dvol.kind = "value" =>
         vol.volatility_per_min =
           (vol.price * vol.dvol.close * 100) \div SqrtMinutesInYear
    /\ vol.dvol.kind # "value" =>
         vol.volatility_per_min =
           (IF RealizedFails(vol.klines) THEN 2500
            ELSE IF Realized(vol.klines) < 500 THEN 500
            ELSE Realized(vol.klines))

\* ------------------------------------------------------ the hybrid prediction
\* Steps 2 and 3 of an iteration of the decision loop: the model probability,
\* then the nudge of the ML model if there is one.  What the nudge meets is
\* drawn at each evaluation, and the probabilities that go on to the edge
\* comparison are kept in probs.

\* predict_proba's probability of class 1, in permille.
AiProbs == {0, 300, 650, 1000}

\* What the nudge block meets: no model loaded; a history that is empty or
\* has 30 rows or fewer; a feature computation that raises; a predict_proba
\* that raises; a prediction.
NudgeOutcomes ==
  [kind : {"absent", "short_history", "features_raise", "predict_raises"}, ai : {0}]
    \cup [kind : {"predicts"}, ai : AiProbs]

\* ai_prob_up where the block reaches the blend.
Nudge(o) == IF o.kind = "predicts" THEN o.ai ELSE NoNudge

\* prob_up and prob_down as the iteration has them at the edge comparison.
HybridPrediction(cur, strike, minutes_left, v, o) ==
  LET math_prob == calculate_prob_up(cur, strike, minutes_left, v)
      prob_up == Blend(Nudge(o), math_prob)
  IN [evaluated |-> TRUE, nudge |-> o.kind, ai |-> o.ai, math_prob |-> math_prob,
      prob_up |-> prob_up, prob_down |-> 1000 - prob_up]

\* The iteration reaches its decision step with these probabilities.
Predict(cur, minutes_left, v, o) ==
  /\ probs' = HybridPrediction(cur, 50000, minutes_left, v, o)
  /\ UNCHANGED <<engineVars, queue, loggerVars, probe, conf_file, last_mtime,
                 loads, raised, redeem, funding, monitor, depth, feed,
                 vol, settled, startup>>

NudgeNext ==
  \E cur \in ProbePrices : \E minutes_left \in {10, 15} : \E v \in {5, 25} :
    \E o \in NudgeOutcomes : Predict(cur, minutes_left, v, o)

NudgeSpec == Init /\ [][NudgeNext]_vars

\* C34: where the nudge model is absent or its block raises, the edge
\* comparison gets the model probability and its complement; where the nudge
\* predicts, it gets 0.3 * nudge + 0.7 * model (to the permille below) and
\* its complement.
C34_NudgeFallsBack ==
  probs.evaluated =>
    /\ probs.prob_down = 1000 - probs.prob_up
    /\ probs.nudge # "predicts" => probs.prob_up = probs.math_prob
    /\ probs.nudge = "predicts" =>
         /\ 10 * probs.prob_up <= 3 * probs.ai + 7 * probs.math_prob
         /\ 10 * probs.prob_up + 10 > 3 * probs.ai + 7 * probs.math_prob

\* A feature computation raised where the model probability is 0.849: the
\* edge comparison gets 0.849 and 0.151.
C34_Witness ==
  /\ probs.nudge = "features_raise"
  /\ probs.math_prob = 849
  /\ probs.prob_up = 849
  /\ probs.prob_down = 151

\* ------------------------------------------- a signal met with the switch off

\* The step creates a position of window w and direction D.
EntersIn(w, D) ==
  \E i \in 1..Len(allPos') :
    /\ i > Len(allPos)
    /\ allPos'[i].market_slug = w
    /\ allPos'[i].direction = D

\* C35: a signal that reaches execute_trade with its (window, direction) pair
\* not yet notified and execution_enabled false is recorded in
\* notified_signals and opens nothing; and a recorded pair stays recorded and
\* no position is opened for it, whatever the tunables become.
C35_DisabledSignalIsSpent ==
  [][\A D \in Dirs :
       /\ (IsTick /\ Attempts(D) /\ <<market.slug, D>> \notin notified_signals
             /\ ~cfg.execution_enabled) =>
            /\ <<market.slug, D>> \in notified_signals'
            /\ ~EntersIn(market.slug, D)
       /\ \A w \in 1..MaxWindow :
            <<w, D>> \in notified_signals =>
              /\ <<w, D>> \in notified_signals'
              /\ ~EntersIn(w, D)]_vars

\* execution_enabled is true after a reload, the window's UP signal has
\* reached execute_trade twice and passed the de-duplication once, and no UP
\* position of the window was ever created: the call that passed met the
\* switch off, and the pair is spent.
C35_Witness ==
  /\ cfg.execution_enabled
  /\ pc = "loop"
  /\ market.slug = now.win
  /\ seen.slug = market.slug
  /\ seen.calls["UP"] = 2
  /\ seen.passed["UP"] = 1
  /\ <<market.slug, "UP">> \in notified_signals
  /\ \A i \in 1..Len(allPos) :
       ~(allPos[i].market_slug = market.slug /\ allPos[i].direction = "UP")

\* ------------------------------------------------ removals from the ledger

\* The types of the exit events, in both modes.
ExitTypes == {"TAKE_PROFIT_PAPER", "TAKE_PROFIT", "STOP_LOSS_PAPER", "STOP_LOSS",
              "SETTLED_PAPER", "SETTLED"}

\* The positions the step takes out of the ledger.
Removed == {i \in {positions[k] : k \in 1..Len(positions)} :
              \A j \in 1..Len(positions') : positions'[j] # i}

\* C36: every step that removes a position from the ledger enqueues an exit
\* event (take-profit, stop-loss or settled) of that position's window,
\* direction and entry price.
C36_RemovalHasExit ==
  [][\A i \in Removed :
       \E n \in Enqueued :
         /\ queue'[n].type \in ExitTypes
         /\ queue'[n].market = allPos[i].market_slug
         /\ queue'[n].direction = allPos[i].direction
         /\ queue'[n].entry_price = allPos[i].entry_price]_vars

\* ---------------------------------------------- one settlement per window

\* C37: settle_positions runs at most once for a window, and so does
\* _raw_redeem.
C37_SettledOncePerWindow ==
  /\ settled.times <= 1
  /\ settled.redeems <= 1

\* ------------------------------------------------ write errors of the logger

\* C38: once the drain task has nothing left to take (it waits on an empty
\* queue, or has returned with the queue empty), every record whose write
\* raised is in the file; and no record is in the file twice.
C38_WriteErrorLosesNothing ==
  /\ (drain \in {"get", "done"} /\ queue = <<>>) =>
       \A r \in dropped : \E i \in 1..Len(file) : file[i] = r
  /\ \A i, j \in 1..Len(file) : file[i] = file[j] => i = j

\* ------------------------------------------------- the tunables at startup
\* The construction of the engine on a config document that is absent,
\* well-formed or malformed, then the config watcher and the reads of the
\* tunables by the decision loop.  startup.defined are the tunables that
\* exist as attributes of the engine; cfg holds their values.

\* The defaults load_config sets when there is no document.
DefaultTunables ==
  [stop_loss_pct |-> 35, safety_margin_pct |-> 6, min_edge |-> 80,
   fee_pct |-> 3, obi_threshold |-> 15, execution_enabled |-> FALSE]

\* The tunables of an engine that has none: no value is read from it.
NoTunables ==
  [stop_loss_pct |-> -1, safety_margin_pct |-> -1, min_edge |-> -1,
   fee_pct |-> -1, obi_threshold |-> -1, execution_enabled |-> FALSE]

AllTunables == {TunableKeys[n] : n \in 1..Len(TunableKeys)}

\* The config document __init__ can meet.
StartupFiles ==
  {NoFile} \cup {[exists |-> TRUE, mtime |-> 1, doc |-> doc] : doc \in Documents}

\* load_config as __init__ calls it, on an engine without tunables: the six
\* assignments for a JSON object, the defaults for a document that does not
\* exist, and nothing where json.load or conf.get raises.
load_config_first(f) ==
  IF ~f.exists THEN [cfg |-> DefaultTunables, defined |-> AllTunables]
  ELSE IF f.doc.kind = "object"
       THEN [cfg |-> AssignFrom(NoTunables, f.doc.body, Len(TunableKeys)),
             defined |-> AllTunables]
       ELSE [cfg |-> NoTunables, defined |-> {}]

StartupInit ==
  /\ now = [win |-> 1, phase |-> 0]
  /\ pc = "resolve"
  /\ market = NoMarket
  /\ book_up = DefaultBook
  /\ book_down = DefaultBook
  /\ positions = <<>>
  /\ allPos = <<>>
  /\ notified_signals = {}
  /\ paper_trade = FALSE
  /\ current_btc = NoPrice
  /\ final_price = NoPrice
  /\ seen = [slug |-> 0, calls |-> NoCalls, passed |-> NoCalls]
  /\ strikeSet = [slug |-> 0, times |-> 0]
  /\ queue = <<>> /\ LoggerIdle
  /\ probe = NoProbe /\ last_mtime = 0 /\ loads = <<>> /\ raised = 0
  /\ redeem = "none" /\ funding = NoFunding /\ monitor = NoMonitor
  /\ depth = NoDepth /\ feed = <<>>
  /\ vol = NoRefresh /\ probs = NoProbs /\ settled = NoSettled
  /\ conf_file \in StartupFiles
  /\ cfg = load_config_first(conf_file).cfg
  /\ startup = [doc |-> IF conf_file.exists THEN conf_file.doc.kind ELSE "absent",
                defined |-> load_config_first(conf_file).defined,
                ticked |-> "no"]

\* One poll of config_watcher on the engine as constructed: a load of a JSON
\* object defines the six tunables.
StartupWatch ==
  /\ IF conf_file.exists /\ conf_file.mtime > last_mtime
     THEN /\ IF HasBaseline(last_mtime)
             THEN /\ cfg' = load_config(cfg, conf_file.doc)
                  /\ loads' = Append(loads, conf_file.doc.kind)
                  /\ startup' = [startup EXCEPT !.defined =
                                   IF conf_file.doc.kind = "object"
                                   THEN AllTunables ELSE @]
             ELSE UNCHANGED <<cfg, loads, startup>>
          /\ last_mtime' = conf_file.mtime
     ELSE UNCHANGED <<cfg, loads, last_mtime, startup>>
  /\ UNCHANGED <<now, pc, market, book_up, book_down, positions, allPos,
                 notified_signals, paper_trade, current_btc, final_price,
                 seen, strikeSet, queue, loggerVars, probe, raised, conf_file,
                 redeem, funding, monitor, depth, feed, vol, probs, settled>>

\* An iteration of the decision loop reaches its decision step and reads
\* self.safety_margin_pct: an attribute that does not exist raises.
ReadTunables ==
  /\ startup' = [startup EXCEPT !.ticked =
                   IF "safety_margin_pct" \in startup.defined THEN "ok"
                   ELSE "AttributeError"]
  /\ UNCHANGED <<engineVars, queue, loggerVars, probe, conf_file, last_mtime,
                 loads, raised, redeem, funding, monitor, depth, feed,
                 vol, probs, settled>>

StartupNext ==
  \/ \E doc \in Documents : WriteDocument(doc)
  \/ RemoveDocument
  \/ StartupWatch
  \/ ReadTunables

StartupSpec == StartupInit /\ [][StartupNext]_vars

\* C39: the six tunables are defined from the construction of the engine on,
\* whatever the config document was at startup, and no decision tick fails on
\* a missing one.
C39_TunablesDefined ==
  /\ startup.defined = AllTunables
  /\ startup.ticked # "AttributeError"

\* -------------------------------------- the watcher and modification times
\* The config watcher of ConfigSpec on a document whose modification time
\* can also move backwards: an older copy is put in its place.

\* A document with an earlier modification time m replaces the present one.
RestoreDocument(doc, m) ==
  /\ conf_file.exists
  /\ m < conf_file.mtime
  /\ conf_file' = [exists |-> TRUE, mtime |-> m, doc |-> doc]
  /\ UNCHANGED <<staticVars, cfg, last_mtime, loads>>

WatchNext ==
  \/ \E doc \in Documents : WriteDocument(doc)
  \/ RemoveDocument
  \/ \E doc \in Documents : \E m \in 1..MaxMtime : RestoreDocument(doc, m)
  \/ Watch

WatchSpec == ConfigInit /\ [][WatchNext]_vars

\* The step is a poll of the watcher: the document is as it was.
IsPoll == conf_file' = conf_file

\* C40: load_config is called only by a poll that finds the document with a
\* modification time above the recorded one, the recorded one not being 0;
\* a poll that records a modification time records the document's, which is
\* above the one recorded before, and calls load_config unless that one was
\* 0; and a poll that finds a modification time at or below the recorded one
\* calls nothing and records nothing.
C40_ReloadRule ==
  [][/\ loads' # loads =>
          /\ IsPoll
          /\ conf_file.exists
          /\ conf_file.mtime > last_mtime
          /\ last_mtime # 0
          /\ loads' = Append(loads, conf_file.doc.kind)
     /\ last_mtime' # last_mtime =>
          /\ IsPoll
          /\ conf_file.exists
          /\ conf_file.mtime > last_mtime
          /\ last_mtime' = conf_file.mtime
          /\ (last_mtime # 0 => loads' # loads)
          /\ (last_mtime = 0 => loads' = loads /\ cfg' = cfg)
     /\ (IsPoll /\ conf_file.exists /\ conf_file.mtime <= last_mtime) =>
          UNCHANGED <<last_mtime, loads, cfg>>]_vars

\* A baseline was taken and a rewrite was loaded; then an older well-formed
\* copy that differs from the tunables was put in the document's place: the
\* recorded time is above the document's and nothing more was loaded.
C40_Witness ==
  /\ conf_file.exists
  /\ conf_file.mtime < last_mtime
  /\ conf_file.doc.kind = "object"
  /\ conf_file.doc.body # cfg
  /\ loads = <<"object">>

====
